---------------------------- MODULE Spec2Model ----------------------------
(***************************************************************************)
(* The incremental layout query engine of flea (src/src/main.rs): the      *)
(* widget tree, the signal store, the four memoised queries with their     *)
(* revision stamps, the dependency graph and the invalidation walk, driven *)
(* by the window events of the application handler.                        *)
(*                                                                         *)
(* Lengths are f64 in the source.  Every length the model feeds in (window *)
(* sizes, box sizes, margins, the signal's initial value and its step) is  *)
(* an even integer, so every sum and difference is an even integer and the *)
(* one division of the program, the halving in                             *)
(* CenteredLayouter::position_for_child, is exact on integers.             *)
(*                                                                         *)
(* A panic (an unwrap on None) or a stack overflow ends the process: the   *)
(* model records it in `panic` and takes no further step; the state it     *)
(* keeps is the one the program had when it died.                          *)
(***************************************************************************)
EXTENDS Integers, Sequences, FiniteSets, TLC

\* ------------------------------------------------------------------------
\* Bounds of the model
\* ------------------------------------------------------------------------

\* Window events delivered in one run (resume included).
MaxEvents == 6

\* Depth of the call stack of nested query evaluations at which the
\* process dies of a stack overflow.
StackLimit == 8

\* Nodes and edges of the free construction (SpecBuild).
MaxNodes == 3

MaxEdges == 2

\* Calls of Tree::layout on one tree (SpecLayout).
MaxLayouts == 2

\* ------------------------------------------------------------------------
\* Program constants
\* ------------------------------------------------------------------------

\* main: the width and height of `size`, the signal's initial value and the
\* size of every SizedBoxLayouter.
InitialExtent == 100

\* window_event, MouseInput: `.width += 10.0`.
WidthStep == 10

\* ------------------------------------------------------------------------
\* kurbo values
\* ------------------------------------------------------------------------

Size(w, h) == [width |-> w, height |-> h]

Point(x, y) == [x |-> x, y |-> y]

SizeZERO == Size(0, 0)

PointORIGIN == Point(0, 0)

\* Rect::from_origin_size
Rect_from_origin_size(origin, size) ==
    [x0 |-> origin.x, y0 |-> origin.y,
     x1 |-> origin.x + size.width, y1 |-> origin.y + size.height]

Max(a, b) == IF a >= b THEN a ELSE b

Min(a, b) == IF a <= b THEN a ELSE b

Constraints(mn, mx) == [min |-> mn, max |-> mx]

\* Constraints::clamp_size
clamp_size(c, s) ==
    Size(Min(Max(s.width, c.min.width), c.max.width),
         Min(Max(s.height, c.min.height), c.max.height))

\* ------------------------------------------------------------------------
\* petgraph::graph::DiGraph as the program uses it.  Node indices are
\* 0-based, in order of add_node; edges are kept in order of add_edge and
\* parallel edges are allowed.  A node's neighbours are walked from the
\* most recently added edge to the oldest.
\* ------------------------------------------------------------------------

DiGraph_new == [nodes |-> <<>>, edges |-> <<>>]

node_count(g) == Len(g.nodes)

graph_add_node(g, w) == [g EXCEPT !.nodes = Append(@, w)]

graph_add_edge(g, a, b) == [g EXCEPT !.edges = Append(@, <<a, b>>)]

node_weight(g, i) == g.nodes[i + 1]

neighbors_directed(g, a, dir) ==
    LET E == g.edges
        near(e) == IF dir = "Outgoing" THEN e[1] ELSE e[2]
        far(e) == IF dir = "Outgoing" THEN e[2] ELSE e[1]
        walk[i \in 0..Len(E)] ==
            IF i = 0 THEN <<>>
            ELSE IF near(E[i]) = a THEN <<far(E[i])>> \o walk[i - 1]
            ELSE walk[i - 1]
    IN walk[Len(E)]

\* Iterator::position: the 0-based place of x in s, or -1 for None.
position(s, x) ==
    IF \E i \in 1..Len(s) : s[i] = x
    THEN (CHOOSE i \in 1..Len(s) : s[i] = x /\ \A j \in 1..(i - 1) : s[j] # x) - 1
    ELSE -1

\* ------------------------------------------------------------------------
\* Query identities (enum QueryDependency)
\* ------------------------------------------------------------------------

NodePosition(i) == [kind |-> "NodePosition", index |-> i]

NodeConstraints(i) == [kind |-> "NodeConstraints", index |-> i]

NodeSize(i) == [kind |-> "NodeSize", index |-> i]

NthChild(p, n) == [kind |-> "NthChild", parent_index |-> p, child_n |-> n]

Signal(id) == [kind |-> "Signal", id |-> id]

\* ------------------------------------------------------------------------
\* Layouters (the weights of the widget tree)
\* ------------------------------------------------------------------------

RowLayouter == [kind |-> "Row"]

Padded(top, bottom, left, right) ==
    [kind |-> "Padded", top |-> top, bottom |-> bottom, left |-> left, right |-> right]

Padded_uniform(p) == Padded(p, p, p, p)

CenteredLayouter == [kind |-> "Centered"]

DynamicallySizedBoxLayouter(sig) == [kind |-> "DynamicallySizedBox", size |-> sig]

SizedBoxLayouter(size) == [kind |-> "SizedBox", size |-> size]

\* A strategy outside the shipped ones: its size_for_self asks the engine
\* for the size of its own node.
SelfSizedLayouter == [kind |-> "SelfSized"]

WidgetTreeWeight(layouter, drawer) == [layouter |-> layouter, drawer |-> drawer]


\* ------------------------------------------------------------------------
\* struct WidgetTree
\* ------------------------------------------------------------------------

\* Option<T>: None is the empty sequence, Some(x) the sequence of x alone.
None == <<>>

Some(x) == <<x>>

\* HashMap::new()
HashMap_new == [k \in {} |-> 0]

\* HashMap::insert
insert(m, k, v) == [x \in DOMAIN m \cup {k} |-> IF x = k THEN v ELSE m[x]]

\* struct Revision
Revision(last_changed, valid_through) ==
    [last_changed |-> last_changed, valid_through |-> valid_through]

\* struct CachedQueryOutput
CachedQueryOutput(value, revision) == [value |-> value, revision |-> revision]

WidgetTree_new ==
    [size |-> SizeZERO,
     tree |-> DiGraph_new,
     root |-> None,
     revision |-> 0,
     signals |-> HashMap_new,
     query_stack |-> <<>>,
     dependency_tree |-> DiGraph_new,
     dependency_node_map |-> HashMap_new,
     node_position_query_cache |-> HashMap_new,
     node_size_query_cache |-> HashMap_new,
     node_constraints_query_cache |-> HashMap_new,
     nth_child_query_cache |-> HashMap_new,
     cache_ratio |-> <<0, 1>>]

\* WidgetTree::create_signal: the new signal's id is the number of signals.
create_signal(t, value) ==
    [t EXCEPT !.signals = insert(@, Cardinality(DOMAIN @), value)]

\* WidgetTree::add_node: the first node added becomes the root.
add_node(t, layouter, drawer) ==
    LET idx == node_count(t.tree)
    IN [t EXCEPT !.tree = graph_add_node(@, WidgetTreeWeight(layouter, drawer)),
                 !.root = IF @ = None THEN Some(idx) ELSE @]

\* WidgetTree::add_child, both arguments node indices: the edge is added
\* whatever the two nodes are.
add_child(t, parent_index, child_index) ==
    [t EXCEPT !.tree = graph_add_edge(@, parent_index, child_index)]

\* ------------------------------------------------------------------------
\* The state an operation works on: the WidgetTree's fields, the Scene it
\* draws into, and what the run has observed since the current event began
\*   panic     "none", or why the process died;
\*   executed  query identity -> executions of its definition;
\*   returned  query identity -> the values its evaluations returned;
\*   reads     <<reader, read>>: the definition of `reader`, executing,
\*             evaluated the query or read the signal `read`.
\* ------------------------------------------------------------------------

Observed_new == [panic |-> "none", executed |-> HashMap_new,
                 returned |-> HashMap_new, reads |-> {},
                 visits |-> <<>>, evaluations |-> <<>>]

Failed(t) == t.panic # "none"

\* A panic keeps the state as it is and every later step of the operation
\* is skipped.
Panic(t, why) == IF Failed(t) THEN t ELSE [t EXCEPT !.panic = why]

\* What an operation hands back: the state it leaves and its value.
Ret(t, v) == [t |-> t, v |-> v]

\* The value of an operation that did not return.
NoValue == <<>>

count(m, k) == IF k \in DOMAIN m THEN m[k] ELSE 0

noteExecuted(t, q) == [t EXCEPT !.executed = insert(@, q, count(@, q) + 1)]

noteReturned(t, q, v) ==
    [t EXCEPT !.returned = insert(@, q, (IF q \in DOMAIN @ THEN @[q] ELSE {}) \cup {v})]

noteRead(t, dep) ==
    IF t.query_stack = <<>> THEN t
    ELSE [t EXCEPT !.reads = @ \cup {<<t.query_stack[Len(t.query_stack)], dep>>}]

\* invalidate, walking the consumers of `through`, took the cached output
\* `old` of the consumer `q`, evaluated it and compared the output `new`
\* with it.
noteVisited(t, through, q, old, new) ==
    [t EXCEPT !.visits = Append(@, [through |-> through, query |-> q,
                                    old |-> old, new |-> new])]

\* What an evaluation may touch, taken before and after it.
snapshot(t) ==
    [revision |-> t.revision,
     query_stack |-> t.query_stack,
     dependency_tree |-> t.dependency_tree,
     dependency_node_map |-> t.dependency_node_map,
     node_position_query_cache |-> t.node_position_query_cache,
     node_size_query_cache |-> t.node_size_query_cache,
     node_constraints_query_cache |-> t.node_constraints_query_cache,
     nth_child_query_cache |-> t.nth_child_query_cache,
     executed |-> t.executed]

\* An evaluation of `q` that began on `before` has returned `value`.
noteEvaluated(t, q, before, value) ==
    [t EXCEPT !.evaluations = Append(@,
        [query |-> q, before |-> before, after |-> snapshot(t), value |-> value])]

\* A variant of track_dependency that, with no query executing, still makes
\* the vertex of `dep`.
track_dependency_or_vertex(t, dep) ==
    IF t.query_stack = <<>>
    THEN IF dep \in DOMAIN t.dependency_node_map THEN t
         ELSE [t EXCEPT !.dependency_node_map =
                             insert(@, dep, node_count(t.dependency_tree)),
                        !.dependency_tree = graph_add_node(@, dep)]
    ELSE
    LET q == t.query_stack[Len(t.query_stack)]
        t1 == IF dep \in DOMAIN t.dependency_node_map THEN t
              ELSE [t EXCEPT !.dependency_node_map =
                                  insert(@, dep, node_count(t.dependency_tree)),
                             !.dependency_tree = graph_add_node(@, dep)]
        t2 == IF q \in DOMAIN t1.dependency_node_map THEN t1
              ELSE [t1 EXCEPT !.dependency_node_map =
                                   insert(@, q, node_count(t1.dependency_tree)),
                              !.dependency_tree = graph_add_node(@, q)]
    IN [t2 EXCEPT !.dependency_tree =
           graph_add_edge(@, t2.dependency_node_map[q], t2.dependency_node_map[dep])]

\* A variant of track_dependency that adds the edge dep -> reader.
track_dependency_reversed(t, dep) ==
    IF t.query_stack = <<>> THEN t
    ELSE
    LET q == t.query_stack[Len(t.query_stack)]
        t1 == IF dep \in DOMAIN t.dependency_node_map THEN t
              ELSE [t EXCEPT !.dependency_node_map =
                                  insert(@, dep, node_count(t.dependency_tree)),
                             !.dependency_tree = graph_add_node(@, dep)]
        dep_node_index == t1.dependency_node_map[dep]
        t2 == IF q \in DOMAIN t1.dependency_node_map THEN t1
              ELSE [t1 EXCEPT !.dependency_node_map =
                                   insert(@, q, node_count(t1.dependency_tree)),
                              !.dependency_tree = graph_add_node(@, q)]
        q_node_index == t2.dependency_node_map[q]
    IN [t2 EXCEPT !.dependency_tree = graph_add_edge(@, dep_node_index, q_node_index)]

\* A variant of track_dependency that adds the edge in both directions.
track_dependency_both_ways(t, dep) ==
    IF t.query_stack = <<>> THEN t
    ELSE
    LET q == t.query_stack[Len(t.query_stack)]
        t1 == IF dep \in DOMAIN t.dependency_node_map THEN t
              ELSE [t EXCEPT !.dependency_node_map =
                                  insert(@, dep, node_count(t.dependency_tree)),
                             !.dependency_tree = graph_add_node(@, dep)]
        dep_node_index == t1.dependency_node_map[dep]
        t2 == IF q \in DOMAIN t1.dependency_node_map THEN t1
              ELSE [t1 EXCEPT !.dependency_node_map =
                                   insert(@, q, node_count(t1.dependency_tree)),
                              !.dependency_tree = graph_add_node(@, q)]
        q_node_index == t2.dependency_node_map[q]
    IN [t2 EXCEPT !.dependency_tree =
           graph_add_edge(graph_add_edge(@, q_node_index, dep_node_index),
                          dep_node_index, q_node_index)]

\* WidgetTree::track_dependency: with a query executing, the vertices of
\* the reader (the top of the stack) and of `dep` are looked up or created,
\* `dep` first, and one more edge reader -> dep is added.
track_dependency(t, dep) ==
    IF t.query_stack = <<>> THEN t
    ELSE
    LET q == t.query_stack[Len(t.query_stack)]
        t1 == IF dep \in DOMAIN t.dependency_node_map THEN t
              ELSE [t EXCEPT !.dependency_node_map =
                                  insert(@, dep, node_count(t.dependency_tree)),
                             !.dependency_tree = graph_add_node(@, dep)]
        dep_node_index == t1.dependency_node_map[dep]
        t2 == IF q \in DOMAIN t1.dependency_node_map THEN t1
              ELSE [t1 EXCEPT !.dependency_node_map =
                                   insert(@, q, node_count(t1.dependency_tree)),
                              !.dependency_tree = graph_add_node(@, q)]
        q_node_index == t2.dependency_node_map[q]
    IN [t2 EXCEPT !.dependency_tree = graph_add_edge(@, q_node_index, dep_node_index)]

\* WidgetTree::get_signal: the value is cloned, then the read is tracked.
get_signal(t, signal) ==
    IF Failed(t) THEN Ret(t, NoValue)
    ELSE IF signal \notin DOMAIN t.signals
    THEN Ret(Panic(t, "get_signal: unwrap on None"), NoValue)
    ELSE Ret(track_dependency(noteRead(t, Signal(signal)), Signal(signal)),
             t.signals[signal])

\* ------------------------------------------------------------------------
\* The query engine and the layouters, which call each other
\* ------------------------------------------------------------------------

RECURSIVE evaluate(_, _)
RECURSIVE execute(_, _)
RECURSIVE query_nth_child(_, _)
RECURSIVE query_node_constraints(_, _)
RECURSIVE query_node_size(_, _)
RECURSIVE query_node_position(_, _)
RECURSIVE constraints_for_child(_, _, _, _)
RECURSIVE position_for_child(_, _, _, _)
RECURSIVE size_for_self(_, _, _, _)
RECURSIVE draw_index(_, _, _)
RECURSIVE invalidate(_, _)

\* struct LayouterConstrainChildrenCtx
LayouterConstrainChildrenCtx(child_n, self_constraints) ==
    [child_n |-> child_n, self_constraints |-> self_constraints]

\* struct LayoutChildWasSizedCtx
LayoutChildWasSizedCtx(child_n) == [child_n |-> child_n]

\* struct LayouterSizeSelfCtx
LayouterSizeSelfCtx(constraints) == [constraints |-> constraints]

\* RowLayouter::constraints_for_child
RowLayouter_constraints_for_child(t, index, ctx) ==
    IF ctx.child_n = 0 THEN Ret(t, ctx.self_constraints)
    ELSE
    LET result(prev_child_size, prev_child_position) ==
            IF Failed(prev_child_position.t) THEN Ret(prev_child_position.t, NoValue)
            ELSE
            LET remaining_width == ctx.self_constraints.max.width
                                   - prev_child_position.v.x - prev_child_size.v.width
            IN Ret(prev_child_position.t,
                   Constraints(ctx.self_constraints.min,
                               Size(remaining_width, ctx.self_constraints.max.height)))
        sized(prev_child_index, prev_child_size) ==
            result(prev_child_size,
                   query_node_position(prev_child_size.t, prev_child_index.v))
        found(prev_child_index) ==
            sized(prev_child_index,
                  query_node_size(prev_child_index.t, prev_child_index.v))
    IN found(query_nth_child(t, NthChild(index, ctx.child_n - 1)))

\* A variant of RowLayouter::position_for_child that places every child
\* but the first behind child 0.
RowLayouter_position_for_child_behind_first(t, index, ctx) ==
    IF ctx.child_n = 0 THEN Ret(t, PointORIGIN)
    ELSE
    LET result(prev_child_size, prev_child_position) ==
            IF Failed(prev_child_position.t) THEN Ret(prev_child_position.t, NoValue)
            ELSE Ret(prev_child_position.t,
                     Point(prev_child_position.v.x + prev_child_size.v.width,
                           prev_child_position.v.y))
        sized(prev_child_index, prev_child_size) ==
            result(prev_child_size,
                   query_node_position(prev_child_size.t, prev_child_index.v))
        found(prev_child_index) ==
            sized(prev_child_index,
                  query_node_size(prev_child_index.t, prev_child_index.v))
    IN found(query_nth_child(t, NthChild(index, 0)))

\* RowLayouter::position_for_child
RowLayouter_position_for_child(t, index, ctx) ==
    IF ctx.child_n = 0 THEN Ret(t, PointORIGIN)
    ELSE
    LET result(prev_child_size, prev_child_position) ==
            IF Failed(prev_child_position.t) THEN Ret(prev_child_position.t, NoValue)
            ELSE Ret(prev_child_position.t,
                     Point(prev_child_position.v.x + prev_child_size.v.width,
                           prev_child_position.v.y))
        sized(prev_child_index, prev_child_size) ==
            result(prev_child_size,
                   query_node_position(prev_child_size.t, prev_child_index.v))
        found(prev_child_index) ==
            sized(prev_child_index,
                  query_node_size(prev_child_index.t, prev_child_index.v))
    IN found(query_nth_child(t, NthChild(index, ctx.child_n - 1)))

\* A variant of RowLayouter::size_for_self that measures the first child
\* where the code measures the last.
RowLayouter_size_for_self_by_first_child(t, index, ctx) ==
    LET child_indices == neighbors_directed(t.tree, index, "Outgoing")
    IN IF child_indices = <<>>
       THEN Ret(Panic(t, "RowLayouter::size_for_self: unwrap on None"), NoValue)
       ELSE
       LET last_child_index == child_indices[1]
           result(last_child_position, last_child_size) ==
               IF Failed(last_child_size.t) THEN Ret(last_child_size.t, NoValue)
               ELSE Ret(last_child_size.t,
                        Size(last_child_position.v.x + last_child_size.v.width,
                             ctx.constraints.max.height))
           placed(last_child_position) ==
               result(last_child_position,
                      query_node_size(last_child_position.t, last_child_index))
       IN placed(query_node_position(t, last_child_index))

\* RowLayouter::size_for_self
RowLayouter_size_for_self(t, index, ctx) ==
    LET child_indices == neighbors_directed(t.tree, index, "Outgoing")
    IN IF child_indices = <<>>
       THEN Ret(Panic(t, "RowLayouter::size_for_self: unwrap on None"), NoValue)
       ELSE
       LET last_child_index == child_indices[Len(child_indices)]
           result(last_child_position, last_child_size) ==
               IF Failed(last_child_size.t) THEN Ret(last_child_size.t, NoValue)
               ELSE Ret(last_child_size.t,
                        Size(last_child_position.v.x + last_child_size.v.width,
                             ctx.constraints.max.height))
           placed(last_child_position) ==
               result(last_child_position,
                      query_node_size(last_child_position.t, last_child_index))
       IN placed(query_node_position(t, last_child_index))

\* Padded::constraints_for_child
Padded_constraints_for_child(self, t, index, ctx) ==
    Ret(t, Constraints(ctx.self_constraints.min,
                       Size(ctx.self_constraints.max.width - self.left - self.right,
                            ctx.self_constraints.max.height - self.top - self.bottom)))

\* Padded::position_for_child
Padded_position_for_child(self, t, index, ctx) == Ret(t, Point(self.left, self.top))

\* Padded::size_for_self
Padded_size_for_self(self, t, index, ctx) ==
    LET result(first_child_size) ==
            IF Failed(first_child_size.t) THEN Ret(first_child_size.t, NoValue)
            ELSE Ret(first_child_size.t,
                     Size(first_child_size.v.width + self.left + self.right,
                          first_child_size.v.height + self.top + self.bottom))
        found(first_child) == result(query_node_size(first_child.t, first_child.v))
    IN found(query_nth_child(t, NthChild(index, 0)))

\* CenteredLayouter::position_for_child
CenteredLayouter_position_for_child(t, index, ctx) ==
    LET result(self_size, child_size) ==
            IF Failed(child_size.t) THEN Ret(child_size.t, NoValue)
            ELSE Ret(child_size.t,
                     Point((self_size.v.width - child_size.v.width) \div 2,
                           (self_size.v.height - child_size.v.height) \div 2))
        found(self_size, child_index) ==
            result(self_size, query_node_size(child_index.t, child_index.v))
        sized(self_size) ==
            found(self_size, query_nth_child(self_size.t, NthChild(index, ctx.child_n)))
    IN sized(query_node_size(t, index))

\* CenteredLayouter::size_for_self
CenteredLayouter_size_for_self(t, index, ctx) ==
    LET child_indices == neighbors_directed(t.tree, index, "Outgoing")
    IN IF child_indices = <<>> THEN Ret(t, ctx.constraints.max)
       ELSE
       LET result(child_size) ==
               IF Failed(child_size.t) THEN Ret(child_size.t, NoValue)
               ELSE Ret(child_size.t, clamp_size(ctx.constraints, child_size.v))
       IN result(query_node_size(t, child_indices[1]))

\* DynamicallySizedBoxLayouter::size_for_self
DynamicallySizedBoxLayouter_size_for_self(self, t, index, ctx) ==
    get_signal(t, self.size)

\* A variant of SizedBoxLayouter::size_for_self whose answer grows with the
\* revision counter.
SizedBoxLayouter_size_for_self_by_revision(self, t, index, ctx) ==
    Ret(t, Size(self.size.width + 2 * t.revision, self.size.height))

\* SizedBoxLayouter::size_for_self
SizedBoxLayouter_size_for_self(self, t, index, ctx) == Ret(t, self.size)

\* The hand-made strategy: the size of node `index` is asked of the engine
\* from inside the definition of NodeSize(index).
SelfSizedLayouter_size_for_self(t, index, ctx) == query_node_size(t, index)

\* trait Layouter, dispatched on the node's strategy.  Centered,
\* DynamicallySizedBox and SizedBox hand their own constraints to a child;
\* DynamicallySizedBox and SizedBox place it at the origin.
constraints_for_child(self, t, index, ctx) ==
    CASE self.kind = "Row" -> RowLayouter_constraints_for_child(t, index, ctx)
      [] self.kind = "Padded" -> Padded_constraints_for_child(self, t, index, ctx)
      [] OTHER -> Ret(t, ctx.self_constraints)

position_for_child(self, t, index, ctx) ==
    CASE self.kind = "Row" -> RowLayouter_position_for_child(t, index, ctx)
      [] self.kind = "Padded" -> Padded_position_for_child(self, t, index, ctx)
      [] self.kind = "Centered" -> CenteredLayouter_position_for_child(t, index, ctx)
      [] OTHER -> Ret(t, PointORIGIN)

size_for_self(self, t, index, ctx) ==
    CASE self.kind = "Row" -> RowLayouter_size_for_self(t, index, ctx)
      [] self.kind = "Padded" -> Padded_size_for_self(self, t, index, ctx)
      [] self.kind = "Centered" -> CenteredLayouter_size_for_self(t, index, ctx)
      [] self.kind = "DynamicallySizedBox" ->
            DynamicallySizedBoxLayouter_size_for_self(self, t, index, ctx)
      [] self.kind = "SizedBox" -> SizedBoxLayouter_size_for_self(self, t, index, ctx)
      [] self.kind = "SelfSized" -> SelfSizedLayouter_size_for_self(t, index, ctx)

\* The parent of a node: the first of its incoming neighbours.
parent_of(t, index) ==
    LET incoming == neighbors_directed(t.tree, index, "Incoming")
    IN IF incoming = <<>> THEN None ELSE Some(incoming[1])

\* <NodePosition as QueryKey>::execute
NodePosition_execute(t, index) ==
    IF t.root = None THEN Ret(Panic(t, "NodePosition: root unwrap on None"), NoValue)
    ELSE IF index = t.root[1] THEN Ret(t, PointORIGIN)
    ELSE IF parent_of(t, index) = None
    THEN Ret(Panic(t, "NodePosition: parent unwrap on None"), NoValue)
    ELSE
    LET parent == parent_of(t, index)[1]
        child_n == position(neighbors_directed(t.tree, parent, "Outgoing"), index)
    IN position_for_child(node_weight(t.tree, parent).layouter, t, parent,
                          LayoutChildWasSizedCtx(child_n))

\* <NodeConstraints as QueryKey>::execute
NodeConstraints_execute(t, index) ==
    IF t.root = None THEN Ret(Panic(t, "NodeConstraints: root unwrap on None"), NoValue)
    ELSE IF index = t.root[1] THEN Ret(t, Constraints(SizeZERO, t.size))
    ELSE IF parent_of(t, index) = None
    THEN Ret(Panic(t, "NodeConstraints: parent unwrap on None"), NoValue)
    ELSE
    LET parent == parent_of(t, index)[1]
        child_n == position(neighbors_directed(t.tree, parent, "Outgoing"), index)
        result(parent_constraints) ==
            IF Failed(parent_constraints.t) THEN Ret(parent_constraints.t, NoValue)
            ELSE constraints_for_child(node_weight(t.tree, parent).layouter,
                                       parent_constraints.t, parent,
                                       LayouterConstrainChildrenCtx(child_n,
                                                                    parent_constraints.v))
    IN result(query_node_constraints(t, parent))

\* <NodeSize as QueryKey>::execute
NodeSize_execute(t, index) ==
    LET result(constraints) ==
            IF Failed(constraints.t) THEN Ret(constraints.t, NoValue)
            ELSE size_for_self(node_weight(t.tree, index).layouter, constraints.t, index,
                               LayouterSizeSelfCtx(constraints.v))
    IN result(query_node_constraints(t, index))

\* A variant of NthChild::execute that falls back on the parent when the
\* child does not exist.
NthChild_execute_or_parent(t, q) ==
    LET children == neighbors_directed(t.tree, q.parent_index, "Outgoing")
    IN IF q.child_n >= Len(children)
       THEN Ret(t, q.parent_index)
       ELSE Ret(t, children[q.child_n + 1])

\* <NthChild as QueryKey>::execute: nth(child_n).unwrap()
NthChild_execute(t, q) ==
    LET children == neighbors_directed(t.tree, q.parent_index, "Outgoing")
    IN IF q.child_n >= Len(children)
       THEN Ret(Panic(t, "NthChild: unwrap on None"), NoValue)
       ELSE Ret(t, children[q.child_n + 1])

execute(t, q) ==
    CASE q.kind = "NodePosition" -> NodePosition_execute(t, q.index)
      [] q.kind = "NodeConstraints" -> NodeConstraints_execute(t, q.index)
      [] q.kind = "NodeSize" -> NodeSize_execute(t, q.index)
      [] q.kind = "NthChild" -> NthChild_execute(t, q)

\* A variant of current_revision that stamps a value as changed at revision 0.
current_revision_since_start(t) == Revision(0, t.revision)

\* WidgetTree::current_revision
current_revision(t) == Revision(t.revision, t.revision)

\* The cache of a query's kind and the query's key in it.
cache_of(q) ==
    CASE q.kind = "NodePosition" -> "node_position_query_cache"
      [] q.kind = "NodeConstraints" -> "node_constraints_query_cache"
      [] q.kind = "NodeSize" -> "node_size_query_cache"
      [] q.kind = "NthChild" -> "nth_child_query_cache"

key_of(q) == IF q.kind = "NthChild" THEN q ELSE q.index

\* Variants of the hit test: one that ignores the revision, one that is
\* never satisfied.
is_cache_hit_whatever_the_revision(cached_output, revision) == TRUE

is_cache_hit_never(cached_output, revision) == cached_output.revision.valid_through > revision

\* `cached_output.revision.valid_through >= *self.revision.borrow()`
is_cache_hit(cached_output, revision) == cached_output.revision.valid_through >= revision

\* A variant of the hit that records the caller's dependency as a miss does.
cache_hit_tracked(t, q, cached_output) ==
    Ret(track_dependency([t EXCEPT !.cache_ratio[1] = @ + 1], q), cached_output.value)

\* The hit: `self.cache_ratio.borrow_mut().0 += 1; return cached_output.value`
cache_hit(t, q, cached_output) ==
    Ret([t EXCEPT !.cache_ratio[1] = @ + 1], cached_output.value)

\* A variant of the pop that leaves the query on the stack.
query_stack_pop_nothing(query_stack) == query_stack

\* `self.query_stack.borrow_mut().pop().unwrap()`
query_stack_pop(query_stack) == SubSeq(query_stack, 1, Len(query_stack) - 1)

\* The four query functions are one text with the kind changed:
\* count the call; on a hit count it and return the cached value; else
\* track the dependency of the caller, push, execute, pop, store the output
\* stamped with the current revision, return it.
evaluate(t, q) ==
    IF Failed(t) THEN Ret(t, NoValue)
    ELSE
    LET c == cache_of(q)
        k == key_of(q)
        t0 == [noteRead(t, q) EXCEPT !.cache_ratio[2] = @ + 1]
    IN IF k \in DOMAIN t0[c] /\ is_cache_hit(t0[c][k], t0.revision)
       THEN LET hit(r) == Ret(noteEvaluated(noteReturned(r.t, q, r.v),
                                            q, snapshot(t), r.v), r.v)
            IN hit(cache_hit(t0, q, t0[c][k]))
       ELSE IF Len(t0.query_stack) >= StackLimit
       THEN Ret(Panic(t0, "stack overflow"), NoValue)
       ELSE
       LET t1 == track_dependency(t0, q)
           t2 == noteExecuted([t1 EXCEPT !.query_stack = Append(@, q)], q)
           store(output) ==
               IF Failed(output.t) THEN Ret(output.t, NoValue)
               ELSE
               LET t3 == [output.t EXCEPT !.query_stack = query_stack_pop(@)]
                   t4 == [t3 EXCEPT ![c] = insert(@, k,
                             CachedQueryOutput(output.v, current_revision(t3)))]
               IN Ret(noteEvaluated(noteReturned(t4, q, output.v),
                                    q, snapshot(t), output.v), output.v)
       IN store(execute(t2, q))

\* WidgetTree::query_nth_child
query_nth_child(t, q) == evaluate(t, q)

\* WidgetTree::query_node_constraints
query_node_constraints(t, q) == evaluate(t, NodeConstraints(q))

\* WidgetTree::query_node_size
query_node_size(t, q) == evaluate(t, NodeSize(q))

\* WidgetTree::query_node_position
query_node_position(t, q) == evaluate(t, NodePosition(q))

\* WidgetTree::draw_index.  A scene entry keeps, with the rectangle handed
\* to the drawer, the node it was drawn for.
draw_index(t, index, offset_pos) ==
    LET weight == node_weight(t.tree, index)
        children(node_position, size) ==
            IF Failed(size.t) THEN size.t
            ELSE
            LET pos == Point(node_position.v.x + offset_pos.x,
                             node_position.v.y + offset_pos.y)
                t1 == IF weight.drawer
                      THEN [size.t EXCEPT !.scene = Append(@,
                               [index |-> index,
                                rect |-> Rect_from_origin_size(pos, size.v)])]
                      ELSE size.t
                neighbors == neighbors_directed(t.tree, index, "Outgoing")
                child_offset == Point(offset_pos.x + pos.x, offset_pos.y + pos.y)
                each[i \in 0..Len(neighbors)] ==
                    IF i = 0 THEN t1
                    ELSE draw_index(each[i - 1], neighbors[i], child_offset)
            IN each[Len(neighbors)]
        placed(node_position) ==
            children(node_position, query_node_size(node_position.t, index))
    IN placed(query_node_position(t, index))

\* WidgetTree::draw
draw(t) == IF t.root = None THEN t ELSE draw_index(t, t.root[1], PointORIGIN)

\* A variant of the entry stored for an equal output: stamped as changed at
\* the current revision.
revalidated_as_changed(old_value, new_value, revision) ==
    CachedQueryOutput(new_value, Revision(revision, revision))

\* The entry invalidate stores for a consumer whose output is equal to the
\* cached one: the value, the old last_changed, valid through the revision.
revalidated(old_value, new_value, revision) ==
    CachedQueryOutput(new_value, Revision(old_value.revision.last_changed, revision))

\* One consumer of the invalidation walk from `q`: its cached output is
\* taken, the query is evaluated, and an equal output is stored again with
\* the old last_changed, a different one queues the consumer.
invalidate_parent(acc, p, q) ==
    IF Failed(acc.t) THEN acc
    ELSE
    LET p_dep == node_weight(acc.t.dependency_tree, p)
    IN IF p_dep.kind = "Signal"
       THEN Ret(Panic(acc.t, "A signal should never depend on another thing"), acc.v)
       ELSE
       LET c == cache_of(p_dep)
           k == key_of(p_dep)
       IN IF k \notin DOMAIN acc.t[c]
          THEN Ret(Panic(acc.t, "invalidate: cache unwrap on None"), acc.v)
          ELSE
          LET old_value == acc.t[c][k]
              compare(new_value) ==
                  IF Failed(new_value.t) THEN Ret(new_value.t, acc.v)
                  ELSE
                  LET t1 == noteVisited(new_value.t, q, p_dep, old_value, new_value.v)
                  IN IF new_value.v = old_value.value
                     THEN Ret([t1 EXCEPT ![c] = insert(@, k,
                                  revalidated(old_value, new_value.v, t1.revision))],
                              acc.v)
                     ELSE Ret(t1, Append(acc.v, p_dep))
          IN compare(evaluate(acc.t, p_dep))

\* WidgetTree::invalidate
invalidate(t, q) ==
    IF Failed(t) THEN t
    ELSE IF q \notin DOMAIN t.dependency_node_map
    THEN Panic(t, "invalidate: dependency_node_map unwrap on None")
    ELSE
    LET q_index == t.dependency_node_map[q]
        q_parents == neighbors_directed(t.dependency_tree, q_index, "Incoming")
        each[i \in 0..Len(q_parents)] ==
            IF i = 0 THEN Ret(t, <<>>) ELSE invalidate_parent(each[i - 1], q_parents[i], q)
        recurse(to_invalidate) ==
            LET rest[i \in 0..Len(to_invalidate.v)] ==
                    IF i = 0 THEN to_invalidate.t
                    ELSE invalidate(rest[i - 1], to_invalidate.v[i])
            IN rest[Len(to_invalidate.v)]
    IN recurse(each[Len(q_parents)])

\* A variant of reset that clears the caches and leaves the graph.
reset_caches_only(t) ==
    [t EXCEPT !.revision = 0,
              !.cache_ratio = <<0, 1>>,
              !.node_position_query_cache = HashMap_new,
              !.node_size_query_cache = HashMap_new,
              !.node_constraints_query_cache = HashMap_new,
              !.nth_child_query_cache = HashMap_new]

\* A variant of reset that sets the revision back and leaves the caches.
reset_keeping_caches(t) ==
    [t EXCEPT !.revision = 0,
              !.cache_ratio = <<0, 1>>,
              !.dependency_node_map = HashMap_new,
              !.dependency_tree = DiGraph_new]

\* WidgetTree::reset
reset(t) ==
    [t EXCEPT !.revision = 0,
              !.cache_ratio = <<0, 1>>,
              !.dependency_node_map = HashMap_new,
              !.dependency_tree = DiGraph_new,
              !.node_position_query_cache = HashMap_new,
              !.node_size_query_cache = HashMap_new,
              !.node_constraints_query_cache = HashMap_new,
              !.nth_child_query_cache = HashMap_new]

\* ------------------------------------------------------------------------
\* The widget trees the runs start from
\* ------------------------------------------------------------------------

\* main: `size`, the value of the signal and of every SizedBoxLayouter.
main_size == Size(InitialExtent, InitialExtent)

\* main, before the loop: the signal is created, then the root Row.
main_root == add_node(create_signal(WidgetTree_new, main_size), RowLayouter, FALSE)

\* main, one turn of the loop.  The innermost add_child_return_parent runs
\* first: it adds the Centered node, then the SizedBox with its drawer, and
\* joins them; the next adds the DynamicallySizedBox and joins it to the
\* Centered node; the outer add_child joins the root to it.
main_loop_body(t) ==
    LET centered == node_count(t.tree)
        t1 == add_node(t, CenteredLayouter, FALSE)
        box == node_count(t1.tree)
        t2 == add_child(add_node(t1, SizedBoxLayouter(main_size), TRUE), centered, box)
        dynamic == node_count(t2.tree)
        t3 == add_child(add_node(t2, DynamicallySizedBoxLayouter(0), FALSE),
                        dynamic, centered)
    IN add_child(t3, t.root[1], dynamic)

\* main with two turns of its loop instead of three.
main_widget_tree == main_loop_body(main_loop_body(main_root))

\* A tree made as main makes one: the signal, then the nodes in order (each
\* with a drawer), then the edges in order.
build(layouters, edges) ==
    LET nodes[i \in 0..Len(layouters)] ==
            IF i = 0 THEN create_signal(WidgetTree_new, main_size)
            ELSE add_node(nodes[i - 1], layouters[i], TRUE)
        joined[i \in 0..Len(edges)] ==
            IF i = 0 THEN nodes[Len(layouters)]
            ELSE add_child(joined[i - 1], edges[i][1], edges[i][2])
    IN joined[Len(edges)]

FixedBox(w, h) == SizedBoxLayouter(Size(w, h))

\* Trees of the shipped layouters.
ShippedTrees ==
    { main_widget_tree,
      \* a Row of a DynamicallySizedBox and a fixed box, in both orders
      build(<<RowLayouter, DynamicallySizedBoxLayouter(0), FixedBox(60, 40)>>,
            <<<<0, 1>>, <<0, 2>>>>),
      build(<<RowLayouter, DynamicallySizedBoxLayouter(0), FixedBox(60, 40)>>,
            <<<<0, 2>>, <<0, 1>>>>),
      \* a Row of three fixed boxes
      build(<<RowLayouter, FixedBox(100, 50), FixedBox(150, 80), FixedBox(200, 30)>>,
            <<<<0, 1>>, <<0, 2>>, <<0, 3>>>>),
      \* Centered around a DynamicallySizedBox
      build(<<CenteredLayouter, DynamicallySizedBoxLayouter(0)>>, <<<<0, 1>>>>),
      \* a Row of a fixed box and a Padded DynamicallySizedBox
      build(<<RowLayouter, FixedBox(60, 40), Padded(6, 30, 10, 20),
              DynamicallySizedBoxLayouter(0)>>,
            <<<<0, 2>>, <<0, 1>>, <<2, 3>>>>),
      \* a Row whose only child is a Padded node without a child
      build(<<RowLayouter, Padded_uniform(16)>>, <<<<0, 1>>>>),
      \* a Row without children
      build(<<RowLayouter>>, <<>>),
      \* a Row of a Centered DynamicallySizedBox and a fixed box
      build(<<RowLayouter, CenteredLayouter, DynamicallySizedBoxLayouter(0),
              FixedBox(60, 40)>>,
            <<<<0, 1>>, <<1, 2>>, <<0, 3>>>>) }

\* Trees with the hand-made self-sized strategy in them.
SelfSizedTrees ==
    { build(<<SelfSizedLayouter>>, <<>>),
      build(<<RowLayouter, DynamicallySizedBoxLayouter(0), SelfSizedLayouter>>,
            <<<<0, 1>>, <<0, 2>>>>),
      build(<<CenteredLayouter, SelfSizedLayouter>>, <<<<0, 1>>>>) }

\* The inner sizes a window is created with or resized to:
\* create_winit_window's LogicalSize, and one narrower than the boxes.
WindowSizes == {Size(1044, 800), Size(80, 60)}

\* ------------------------------------------------------------------------
\* The application (struct SimpleVelloApp) and its event handlers
\* ------------------------------------------------------------------------

VARIABLES
    widget_tree,   \* the WidgetTree
    state,         \* RenderState: "Suspended" or "Active"
    scene,         \* the Scene of the last redraw: the rectangles drawn
    panic,         \* "none", or why the process died
    event,         \* the handler that ran last
    events,        \* handlers run so far
    executed,      \* during the last handler: executions of each definition
    returned,      \* during the last handler: values each query returned
    reads,         \* during the last handler: reads made by definitions
    visits,        \* during the last handler: consumers invalidate compared
    pass,          \* the calls of invalidate in progress, innermost last
    evaluations,   \* during the last handler: evaluations that returned
    padded,        \* the Padded under study (SpecPadded), or None
    tree_rs        \* the Tree of tree.rs under study (SpecLayout), or None

vars == <<widget_tree, state, scene, panic, event, events, executed, returned, reads,
          visits, evaluations, pass, padded, tree_rs>>

\* The state a handler starts on and the state it leaves.
Begin == widget_tree @@ [scene |-> scene] @@ Observed_new

Store(t, name) ==
    /\ widget_tree' = [f \in DOMAIN WidgetTree_new |-> t[f]]
    /\ scene' = t.scene
    /\ panic' = t.panic
    /\ executed' = t.executed
    /\ returned' = t.returned
    /\ reads' = t.reads
    /\ visits' = t.visits
    /\ evaluations' = t.evaluations
    /\ event' = name

Commit(t, name) ==
    /\ Store(t, name)
    /\ events' = events + 1
    /\ UNCHANGED <<padded, pass, tree_rs>>

Running == panic = "none" /\ events < MaxEvents

\* ApplicationHandler::resumed: the window is created and its inner size
\* becomes the tree's size.
resumed(t, size) == [t EXCEPT !.size = size]

\* window_event, WindowEvent::Resized
window_event_Resized(t, size) == [t EXCEPT !.size = size]

\* window_event, WindowEvent::MouseInput (pressed), up to the call of
\* invalidate: the revision is incremented and the signal's width raised.
window_event_MouseInput_set(t) ==
    LET t1 == [t EXCEPT !.revision = @ + 1]
    IN IF 0 \notin DOMAIN t1.signals THEN Panic(t1, "MouseInput: unwrap on None")
       ELSE [t1 EXCEPT !.signals[0].width = @ + WidthStep]

\* window_event, WindowEvent::MouseInput (pressed)
window_event_MouseInput(t) == invalidate(window_event_MouseInput_set(t), Signal(0))

\* A variant of the RedrawRequested arm that draws at the revision it finds.
window_event_RedrawRequested_same_revision(t) == draw([t EXCEPT !.scene = <<>>])

\* window_event, WindowEvent::RedrawRequested
window_event_RedrawRequested(t) ==
    draw([t EXCEPT !.revision = @ + 1, !.scene = <<>>])

Resumed ==
    /\ Running
    /\ state = "Suspended"
    /\ \E size \in WindowSizes : Commit(resumed(Begin, size), "resumed")
    /\ state' = "Active"

Resized ==
    /\ Running
    /\ state = "Active"
    /\ \E size \in WindowSizes : Commit(window_event_Resized(Begin, size), "Resized")
    /\ UNCHANGED state

MouseInput ==
    /\ Running
    /\ state = "Active"
    /\ Commit(window_event_MouseInput(Begin), "MouseInput")
    /\ UNCHANGED state

RedrawRequested ==
    /\ Running
    /\ state = "Active"
    /\ Commit(window_event_RedrawRequested(Begin), "RedrawRequested")
    /\ UNCHANGED state

Reset ==
    /\ Running
    /\ state = "Active"
    /\ Commit(reset(Begin), "reset")
    /\ UNCHANGED state

InitWith(trees) ==
    /\ widget_tree \in trees
    /\ state = "Suspended"
    /\ scene = <<>>
    /\ panic = "none"
    /\ event = "main"
    /\ events = 0
    /\ executed = HashMap_new
    /\ returned = HashMap_new
    /\ reads = {}
    /\ visits = <<>>
    /\ evaluations = <<>>
    /\ pass = <<>>
    /\ tree_rs = None
    /\ padded = None

Init == InitWith(ShippedTrees)

Next == Resumed \/ Resized \/ MouseInput \/ RedrawRequested \/ Reset

Spec == Init /\ [][Next]_vars

\* WidgetTree::get_signal called by the application itself, with no query
\* executing.  The value it hands back is kept in `returned`.
GetSignal ==
    /\ Running
    /\ \E signal \in DOMAIN widget_tree.signals :
           LET done(r) == Commit(noteReturned(r.t, Signal(signal), r.v), "get_signal")
           IN done(get_signal(Begin, signal))
    /\ UNCHANGED state

NextApi == Next \/ GetSignal

\* The application, and a caller of the engine's public functions beside it.
SpecApi == Init /\ [][NextApi]_vars

\* ------------------------------------------------------------------------
\* The press, one step of invalidate at a time.  `pass` holds one frame per
\* call of invalidate that has not returned: the vertex q it was called
\* with, the consumers of q still to visit and the consumers queued.
\* ------------------------------------------------------------------------

\* The state a step of a handler goes on from.
Resume ==
    widget_tree @@ [scene |-> scene, panic |-> panic, executed |-> executed,
                    returned |-> returned, reads |-> reads, visits |-> visits,
                    evaluations |-> evaluations]

\* invalidate, entry: q_index is looked up and q_parents collected.
invalidate_enter(t, q) ==
    [q |-> q,
     q_parents |-> neighbors_directed(t.dependency_tree, t.dependency_node_map[q],
                                      "Incoming"),
     to_invalidate |-> <<>>]

\* A variant of the return from invalidate that leaves the frame in place.
invalidate_return_nowhere(frames) == frames

\* invalidate, return: the innermost call is over.
invalidate_return(frames) == SubSeq(frames, 1, Len(frames) - 1)

\* A call of invalidate begins on the state t: it dies if q has no vertex,
\* else its frame is pushed.
Enter(t, q, frames, name) ==
    IF Failed(t) \/ q \notin DOMAIN t.dependency_node_map
    THEN /\ Store(IF Failed(t) THEN t
                  ELSE Panic(t, "invalidate: dependency_node_map unwrap on None"),
                  name)
         /\ pass' = frames
    ELSE /\ Store(t, name)
         /\ pass' = Append(frames, invalidate_enter(t, q))

\* The MouseInput arm up to the first call of invalidate.
MouseInputBegin ==
    /\ Running
    /\ state = "Active"
    /\ pass = <<>>
    /\ Enter(window_event_MouseInput_set(Begin), Signal(0), <<>>, "MouseInput")
    /\ events' = events + 1
    /\ UNCHANGED <<state, padded, tree_rs>>

\* `for p in q_parents`: the next consumer is visited.
PassVisit ==
    /\ panic = "none"
    /\ pass # <<>>
    /\ pass[Len(pass)].q_parents # <<>>
    /\ LET frame == pass[Len(pass)]
           visited(acc) ==
               /\ Store(acc.t, event)
               /\ pass' = [pass EXCEPT ![Len(pass)] =
                      [frame EXCEPT !.q_parents = Tail(@), !.to_invalidate = acc.v]]
       IN visited(invalidate_parent(Ret(Resume, frame.to_invalidate),
                                    Head(frame.q_parents), frame.q))
    /\ UNCHANGED <<state, events, padded, tree_rs>>

\* `for dep in to_invalidate`: invalidate is called with the next one.
PassDescend ==
    /\ panic = "none"
    /\ pass # <<>>
    /\ pass[Len(pass)].q_parents = <<>>
    /\ pass[Len(pass)].to_invalidate # <<>>
    /\ Enter(Resume, Head(pass[Len(pass)].to_invalidate),
             [pass EXCEPT ![Len(pass)].to_invalidate = Tail(@)], event)
    /\ UNCHANGED <<state, events, padded, tree_rs>>

\* Both loops of the innermost call are over: it returns.
PassReturn ==
    /\ panic = "none"
    /\ pass # <<>>
    /\ pass[Len(pass)].q_parents = <<>>
    /\ pass[Len(pass)].to_invalidate = <<>>
    /\ pass' = invalidate_return(pass)
    /\ UNCHANGED <<widget_tree, state, scene, panic, event, events, executed, returned, reads,
                 visits, evaluations, padded, tree_rs>>

\* What a visit does to the innermost frame, whatever the consumer
\* evaluates to: the consumer leaves q_parents and is queued or is not.
PassVisitFrame ==
    /\ panic = "none"
    /\ pass # <<>>
    /\ pass[Len(pass)].q_parents # <<>>
    /\ \E queued \in BOOLEAN :
           pass' = [pass EXCEPT ![Len(pass)] =
               [@ EXCEPT !.q_parents = Tail(@),
                         !.to_invalidate =
                             IF queued
                             THEN Append(@, node_weight(widget_tree.dependency_tree,
                                                        Head(pass[Len(pass)].q_parents)))
                             ELSE @]]

NextPass ==
    \/ pass = <<>> /\ Resumed
    \/ pass = <<>> /\ RedrawRequested
    \/ pass = <<>> /\ Reset
    \/ MouseInputBegin
    \/ PassVisit
    \/ PassDescend
    \/ PassReturn

\* The handler runs on once it has begun: a step of the pass that can be
\* taken is taken.  The steps of NextPass that change `pass` as
\* PassVisitFrame does are the steps of PassVisit.
SpecPass ==
    Init /\ [][NextPass]_vars /\ WF_pass(PassVisitFrame) /\ WF_vars(PassDescend \/ PassReturn)

\* ------------------------------------------------------------------------
\* The application and, between its events, calls of the public draw and
\* invalidate that leave the revision as it is.  They go on from the
\* observations of the handler before them, so that `executed`, `visits`
\* and `evaluations` cover the time since the last increment.
\* ------------------------------------------------------------------------

\* WidgetTree::draw on an empty scene, at the revision found
Draw ==
    /\ Running
    /\ state = "Active"
    /\ Commit(draw([Resume EXCEPT !.scene = <<>>]), "draw")
    /\ UNCHANGED state

\* WidgetTree::invalidate from the signal, at the revision found
Invalidate ==
    /\ Running
    /\ state = "Active"
    /\ Commit(invalidate(Resume, Signal(0)), "invalidate")
    /\ UNCHANGED state

NextMix == Resumed \/ RedrawRequested \/ MouseInput \/ Draw \/ Invalidate

SpecMix == Init /\ [][NextMix]_vars

\* The same application on trees that hold the hand-made strategy.
InitCyc == InitWith(SelfSizedTrees)

SpecCyc == InitCyc /\ [][Next]_vars

\* ------------------------------------------------------------------------
\* The construction of a tree by arbitrary add_node and add_child calls,
\* before the event loop runs.
\* ------------------------------------------------------------------------

BuildLayouters == {RowLayouter, CenteredLayouter, FixedBox(60, 40)}

AddNode ==
    /\ node_count(widget_tree.tree) < MaxNodes
    /\ \E layouter \in BuildLayouters :
           widget_tree' = add_node(widget_tree, layouter, FALSE)
    /\ UNCHANGED <<state, scene, panic, event, events, executed, returned, reads,
                 visits, evaluations, pass, padded, tree_rs>>

AddChild ==
    /\ Len(widget_tree.tree.edges) < MaxEdges
    /\ \E parent_index, child_index \in 0..(node_count(widget_tree.tree) - 1) :
           widget_tree' = add_child(widget_tree, parent_index, child_index)
    /\ UNCHANGED <<state, scene, panic, event, events, executed, returned, reads,
                 visits, evaluations, pass, padded, tree_rs>>

InitBuild == InitWith({create_signal(WidgetTree_new, main_size)})

NextBuild == AddNode \/ AddChild

SpecBuild == InitBuild /\ [][NextBuild]_vars

\* ------------------------------------------------------------------------
\* The three Padded of the repository, as functions of their margins:
\* main.rs (struct Padded, f64), tree.rs (struct Padded, u32) and layout.rs
\* (struct PaddedLayouter, u32).
\* ------------------------------------------------------------------------

\* tree.rs, Padded::new
tree_Padded_new(left, right, top, bottom) ==
    [left |-> left, right |-> right, top |-> top, bottom |-> bottom,
     child_size |-> Size(0, 0)]

\* tree.rs, <Padded as Layout>::position_child
tree_Padded_position_child(self, child_index, child_size) ==
    Point(self.left, self.bottom)

\* layout.rs, PaddedLayouter::new
PaddedLayouter_new(left, right, top, bottom) ==
    [left |-> left, right |-> right, top |-> top, bottom |-> bottom,
     child_size |-> Size(0, 0)]

\* layout.rs, <PaddedLayouter as Layouter>::position_child
PaddedLayouter_position_child(self, size) == Point(self.left, self.bottom)

\* u32 values are kept as two 16-bit halves <<high, low>>, the value being
\* high * 65536 + low.  u32(n) is the u32 of a number in range; u32_wrap(n)
\* is the u32 left by an operation whose exact result is n (n + 2^32 for a
\* negative n); u32_overflows(n) says whether the exact result is out of
\* range, a panic where overflow checks are compiled in.  The exact
\* results met here lie between -2^31 and 2^31.
u32(n) == <<n \div 65536, n % 65536>>

u32_wrap(n) ==
    IF n >= 0 THEN u32(n)
    ELSE <<65535 - ((-n - 1) \div 65536), 65535 - ((-n - 1) % 65536)>>

u32_overflows(n) == n < 0

\* layout.rs, struct LayoutConstraint
LayoutConstraint(min_width, min_height, max_width, max_height) ==
    [min_width |-> min_width, min_height |-> min_height,
     max_width |-> max_width, max_height |-> max_height]

\* tree.rs, <Padded as Layout>::constrain_child.  `checked` says whether
\* the build checks overflow.
tree_Padded_constrain_child(self, child_index, constraint, checked) ==
    [panicked |-> checked /\ (\/ u32_overflows(constraint.max_width - self.left)
                              \/ u32_overflows(constraint.max_width - self.left - self.right)
                              \/ u32_overflows(constraint.max_height - self.top)
                              \/ u32_overflows(constraint.max_height - self.top - self.bottom)),
     value |-> LayoutConstraint(
                   u32_wrap(constraint.min_width + self.left + self.right),
                   u32_wrap(constraint.min_height + self.top + self.bottom),
                   u32_wrap(constraint.max_width - self.left - self.right),
                   u32_wrap(constraint.max_height - self.top - self.bottom))]

\* layout.rs, <PaddedLayouter as Layouter>::constrain_child
PaddedLayouter_constrain_child(self, constraint, checked) ==
    [panicked |-> checked /\ (\/ u32_overflows(constraint.max_width - self.left)
                              \/ u32_overflows(constraint.max_width - self.left - self.right)
                              \/ u32_overflows(constraint.max_height - self.top)
                              \/ u32_overflows(constraint.max_height - self.top - self.bottom)),
     value |-> LayoutConstraint(
                   u32_wrap(constraint.min_width + self.left + self.right),
                   u32_wrap(constraint.min_height + self.top + self.bottom),
                   u32_wrap(constraint.max_width - self.left - self.right),
                   u32_wrap(constraint.max_height - self.top - self.bottom))]

\* The constraints a Padded is handed: the window's, a tight pair, and a
\* maximum smaller than two margins.
PaddedIncoming ==
    { LayoutConstraint(0, 0, 1044, 800),
      LayoutConstraint(50, 40, 80, 60),
      LayoutConstraint(0, 0, 40, 30) }

\* The margins a Padded is made with.
Margins == {6, 10, 30}

\* `padded`: the four margins, the constraints handed to the Padded and,
\* per file, the offset and the constraints its Padded gave its child, None
\* until it is asked.
InitPadded ==
    /\ widget_tree = WidgetTree_new
    /\ state = "Suspended"
    /\ scene = <<>>
    /\ panic = "none"
    /\ event = "main"
    /\ events = 0
    /\ executed = HashMap_new
    /\ returned = HashMap_new
    /\ reads = {}
    /\ visits = <<>>
    /\ evaluations = <<>>
    /\ pass = <<>>
    /\ tree_rs = None
    /\ \E left, right, top, bottom \in Margins :
           \E incoming \in PaddedIncoming :
               padded = [left |-> left, right |-> right, top |-> top, bottom |-> bottom,
                         incoming |-> incoming,
                         position |-> [main_rs |-> None, tree_rs |-> None,
                                       layout_rs |-> None],
                         constraints |-> [main_rs |-> None, tree_rs |-> None,
                                          layout_rs |-> None]]

PositionForChild ==
    /\ padded.position.main_rs = None
    /\ padded' = [padded EXCEPT !.position.main_rs =
           Some(Padded_position_for_child(
                    Padded(padded.top, padded.bottom, padded.left, padded.right),
                    Begin, 0, LayoutChildWasSizedCtx(0)).v)]
    /\ UNCHANGED <<widget_tree, state, scene, panic, event, events, executed, returned, reads,
                 visits, evaluations, pass, tree_rs>>

TreePositionChild ==
    /\ padded.position.tree_rs = None
    /\ padded' = [padded EXCEPT !.position.tree_rs =
           Some(tree_Padded_position_child(
                    tree_Padded_new(padded.left, padded.right, padded.top, padded.bottom),
                    0, main_size))]
    /\ UNCHANGED <<widget_tree, state, scene, panic, event, events, executed, returned, reads,
                 visits, evaluations, pass, tree_rs>>

LayouterPositionChild ==
    /\ padded.position.layout_rs = None
    /\ padded' = [padded EXCEPT !.position.layout_rs =
           Some(PaddedLayouter_position_child(
                    PaddedLayouter_new(padded.left, padded.right, padded.top, padded.bottom),
                    main_size))]
    /\ UNCHANGED <<widget_tree, state, scene, panic, event, events, executed, returned, reads,
                 visits, evaluations, pass, tree_rs>>

ConstraintsForChild ==
    /\ padded.constraints.main_rs = None
    /\ padded' = [padded EXCEPT !.constraints.main_rs =
           Some(Padded_constraints_for_child(
                    Padded(padded.top, padded.bottom, padded.left, padded.right),
                    Begin, 0,
                    LayouterConstrainChildrenCtx(0,
                        Constraints(Size(padded.incoming.min_width,
                                         padded.incoming.min_height),
                                    Size(padded.incoming.max_width,
                                         padded.incoming.max_height)))).v)]
    /\ UNCHANGED <<widget_tree, state, scene, panic, event, events, executed, returned, reads,
                 visits, evaluations, pass, tree_rs>>

TreeConstrainChild ==
    /\ padded.constraints.tree_rs = None
    /\ \E checked \in BOOLEAN :
           padded' = [padded EXCEPT !.constraints.tree_rs =
               Some(tree_Padded_constrain_child(
                        tree_Padded_new(padded.left, padded.right, padded.top,
                                        padded.bottom),
                        0, padded.incoming, checked))]
    /\ UNCHANGED <<widget_tree, state, scene, panic, event, events, executed, returned, reads,
                 visits, evaluations, pass, tree_rs>>

LayouterConstrainChild ==
    /\ padded.constraints.layout_rs = None
    /\ \E checked \in BOOLEAN :
           padded' = [padded EXCEPT !.constraints.layout_rs =
               Some(PaddedLayouter_constrain_child(
                        PaddedLayouter_new(padded.left, padded.right, padded.top,
                                           padded.bottom),
                        padded.incoming, checked))]
    /\ UNCHANGED <<widget_tree, state, scene, panic, event, events, executed, returned, reads,
                 visits, evaluations, pass, tree_rs>>

NextPadded ==
    \/ PositionForChild
    \/ TreePositionChild
    \/ LayouterPositionChild
    \/ ConstraintsForChild
    \/ TreeConstrainChild
    \/ LayouterConstrainChild

SpecPadded == InitPadded /\ [][NextPadded]_vars

\* ------------------------------------------------------------------------
\* tree.rs: the Tree that keeps its layout in `rects`, and its layout pass
\* ------------------------------------------------------------------------

\* geometry.rs, struct Rect
geometry_Rect(pos, size) == [pos |-> pos, size |-> size]

\* u32 + n and u32 - n on the halves of a u32, for n below 2^16: whether
\* the exact result is out of range, and the u32 that wrapping leaves.
u32_add(a, n) ==
    LET low == a[2] + n
        high == a[1] + (low \div 65536)
    IN [overflows |-> high > 65535, value |-> <<high % 65536, low % 65536>>]

u32_sub(a, n) ==
    LET low == a[2] - n
        high == IF low < 0 THEN a[1] - 1 ELSE a[1]
    IN [overflows |-> high < 0,
        value |-> <<(high + 65536) % 65536, (low + 65536) % 65536>>]

\* A layout behind `Rc<RefCell<dyn Layout>>`: the implementation and its
\* fields.
tree_SizedBox_new(size) == [kind |-> "SizedBox", self |-> [size |-> size]]

tree_Padded_boxed(left, right, top, bottom) ==
    [kind |-> "Padded", self |-> tree_Padded_new(left, right, top, bottom)]

\* Layout::prepare_layout: the default does nothing, Padded asserts one
\* child and forgets the child's size.
Layout_prepare_layout(layout, child_count) ==
    IF layout.kind = "Padded"
    THEN [panicked |-> child_count # 1,
          layout |-> [layout EXCEPT !.self.child_size = Size(0, 0)]]
    ELSE [panicked |-> FALSE, layout |-> layout]

\* Layout::constrain_child on a LayoutConstraint of u32 halves
Layout_constrain_child(layout, child_index, constraint, checked) ==
    IF layout.kind = "Padded"
    THEN LET self == layout.self
             min_width == u32_add(u32_add(constraint.min_width, self.left).value, self.right)
             min_height == u32_add(u32_add(constraint.min_height, self.top).value, self.bottom)
             max_width == u32_sub(u32_sub(constraint.max_width, self.left).value, self.right)
             max_height == u32_sub(u32_sub(constraint.max_height, self.top).value, self.bottom)
         IN [panicked |-> checked /\ (\/ u32_add(constraint.min_width, self.left).overflows
                                      \/ min_width.overflows
                                      \/ u32_add(constraint.min_height, self.top).overflows
                                      \/ min_height.overflows
                                      \/ u32_sub(constraint.max_width, self.left).overflows
                                      \/ max_width.overflows
                                      \/ u32_sub(constraint.max_height, self.top).overflows
                                      \/ max_height.overflows),
             value |-> LayoutConstraint(min_width.value, min_height.value,
                                        max_width.value, max_height.value)]
    ELSE [panicked |-> FALSE, value |-> constraint]

\* Layout::on_child_sized: the default does nothing, Padded keeps the size.
Layout_on_child_sized(layout, child_index, size) ==
    IF layout.kind = "Padded" THEN [layout EXCEPT !.self.child_size = size] ELSE layout

\* Layout::position_child
Layout_position_child(layout, child_index, child_size) ==
    IF layout.kind = "Padded"
    THEN tree_Padded_position_child(layout.self, child_index, child_size)
    ELSE Point(0, 0)

\* Layout::compute_self_size
Layout_compute_self_size(layout, constraint) ==
    IF layout.kind = "Padded"
    THEN Size(layout.self.child_size.width + layout.self.left + layout.self.right,
              layout.self.child_size.height + layout.self.top + layout.self.bottom)
    ELSE layout.self.size

\* Tree::new, with what the runs observe besides: whether the process died,
\* the offset position_child last returned for each node, and the size and
\* the rects of every layout call that returned.
Tree_new ==
    [children |-> <<>>, layouts |-> <<>>, rects |-> <<>>,
     panic |-> "none", child_offset |-> HashMap_new, laid_out |-> <<>>]

\* Tree::push
Tree_push(t, layout) ==
    [t EXCEPT !.layouts = Append(@, layout),
              !.children = Append(@, <<>>),
              !.rects = Append(@, geometry_Rect(Point(0, 0), Size(0, 0)))]

\* Tree::push_child
Tree_push_child(t, parent, child) ==
    [t EXCEPT !.children[parent + 1] = Append(@, child)]

\* Tree::push_with_child
Tree_push_with_child(t, parent, child) ==
    Tree_push_child(Tree_push(Tree_push(t, parent), child),
                    Len(t.layouts), Len(t.layouts) + 1)

\* `self.rects[child_id].pos = Point { x: base_pos.x + child_offset.x, .. }`
Tree_place_child(base_pos, child_offset) ==
    Point(base_pos.x + child_offset.x, base_pos.y + child_offset.y)

\* Tree::layout_id.  The layouter is borrowed from layouts[id] for the
\* whole call and what it keeps is in layouts[id] when the call returns.
RECURSIVE layout_id(_, _, _, _)
layout_id(t, id, constraint, checked) ==
    IF t.panic # "none" THEN t
    ELSE
    LET children == t.children[id + 1]
        prepared == Layout_prepare_layout(t.layouts[id + 1], Len(children))
        sized(acc, child_index, child_constraint) ==
            IF acc.t.panic # "none" THEN acc
            ELSE IF child_constraint.panicked
            THEN [acc EXCEPT !.t.panic = "arithmetic overflow"]
            ELSE
            LET child_id == children[child_index + 1]
                child_sized(t1) ==
                    IF t1.panic # "none" THEN [acc EXCEPT !.t = t1]
                    ELSE [t |-> t1,
                          layouter |-> Layout_on_child_sized(acc.layouter, child_index,
                                                             t1.rects[child_id + 1].size)]
            IN child_sized(layout_id(acc.t, child_id, child_constraint.value, checked))
        each_sized[i \in 0..Len(children)] ==
            IF i = 0 THEN [t |-> t, layouter |-> prepared.layout]
            ELSE sized(each_sized[i - 1], i - 1,
                       Layout_constrain_child(each_sized[i - 1].layouter, i - 1,
                                              constraint, checked))
        positioned(acc, child_index) ==
            LET child_id == children[child_index + 1]
                child_offset == Layout_position_child(acc.layouter, child_index,
                                                      acc.t.rects[child_id + 1].size)
                base_pos == acc.t.rects[id + 1].pos
            IN [acc EXCEPT !.t.rects[child_id + 1].pos =
                               Tree_place_child(base_pos, child_offset),
                           !.t.child_offset = insert(@, child_id, child_offset)]
        each_positioned[i \in 0..Len(children)] ==
            IF i = 0 THEN each_sized[Len(children)]
            ELSE positioned(each_positioned[i - 1], i - 1)
        self_sized(acc) ==
            IF acc.t.panic # "none" THEN acc.t
            ELSE [acc.t EXCEPT !.rects[id + 1].size =
                                   Layout_compute_self_size(acc.layouter, constraint),
                               !.layouts[id + 1] = acc.layouter]
    IN IF prepared.panicked
       THEN [t EXCEPT !.panic = "assertion failed: child_count == 1"]
       ELSE IF each_sized[Len(children)].t.panic # "none"
       THEN each_sized[Len(children)].t
       ELSE self_sized(each_positioned[Len(children)])

\* Tree::layout
Tree_layout(t, size, checked) ==
    IF t.layouts = <<>> THEN [t EXCEPT !.panic = "index out of bounds"]
    ELSE layout_id(t, 0, LayoutConstraint(u32(size.width), u32(size.height),
                                          u32(size.width), u32(size.height)),
                   checked)

\* The layouts pushed and the sizes laid out.  The second size is smaller
\* than the margins of the second Padded.
TreeLayouts ==
    { tree_SizedBox_new(Size(60, 40)),
      tree_Padded_boxed(6, 6, 6, 6),
      tree_Padded_boxed(10, 30, 6, 16) }

LayoutSizes == {Size(80, 60), Size(30, 20)}

InitLayout ==
    /\ widget_tree = WidgetTree_new
    /\ state = "Suspended"
    /\ scene = <<>>
    /\ panic = "none"
    /\ event = "main"
    /\ events = 0
    /\ executed = HashMap_new
    /\ returned = HashMap_new
    /\ reads = {}
    /\ visits = <<>>
    /\ evaluations = <<>>
    /\ pass = <<>>
    /\ padded = None
    /\ tree_rs = Tree_new

\* The tree is built before it is laid out.
TreeBuilding == tree_rs.panic = "none" /\ tree_rs.laid_out = <<>>

TreeIds == 0..(Len(tree_rs.layouts) - 1)

TreePush ==
    /\ TreeBuilding
    /\ Len(tree_rs.layouts) < MaxNodes
    /\ \E layout \in TreeLayouts : tree_rs' = Tree_push(tree_rs, layout)
    /\ UNCHANGED <<widget_tree, state, scene, panic, event, events, executed, returned, reads,
                 visits, evaluations, pass, padded>>

\* A child is attached to a node pushed before it, and once.
TreePushChild ==
    /\ TreeBuilding
    /\ \E parent, child \in TreeIds :
           /\ parent < child
           /\ \A p \in TreeIds : \A i \in DOMAIN tree_rs.children[p + 1] :
                  tree_rs.children[p + 1][i] # child
           /\ tree_rs' = Tree_push_child(tree_rs, parent, child)
    /\ UNCHANGED <<widget_tree, state, scene, panic, event, events, executed, returned, reads,
                 visits, evaluations, pass, padded>>

TreePushWithChild ==
    /\ TreeBuilding
    /\ Len(tree_rs.layouts) + 2 <= MaxNodes
    /\ \E parent, child \in TreeLayouts :
           tree_rs' = Tree_push_with_child(tree_rs, parent, child)
    /\ UNCHANGED <<widget_tree, state, scene, panic, event, events, executed, returned, reads,
                 visits, evaluations, pass, padded>>

TreeLayout ==
    /\ tree_rs.panic = "none"
    /\ Len(tree_rs.laid_out) < MaxLayouts
    /\ \E size \in LayoutSizes, checked \in BOOLEAN :
           LET laid(t) ==
                   IF t.panic # "none" THEN t
                   ELSE [t EXCEPT !.laid_out = Append(@, [size |-> size, rects |-> t.rects])]
           IN tree_rs' = laid(Tree_layout(tree_rs, size, checked))
    /\ UNCHANGED <<widget_tree, state, scene, panic, event, events, executed, returned, reads,
                 visits, evaluations, pass, padded>>

NextLayout ==
    \/ TreePush
    \/ TreePushChild
    \/ TreePushWithChild
    \/ TreeLayout

SpecLayout == InitLayout /\ [][NextLayout]_vars

\* ------------------------------------------------------------------------
\* Reading the state
\* ------------------------------------------------------------------------

Nodes == 0..(node_count(widget_tree.tree) - 1)

Children(index) == neighbors_directed(widget_tree.tree, index, "Outgoing")

Parents(index) == neighbors_directed(widget_tree.tree, index, "Incoming")

\* The cache entry of a query in a WidgetTree, as an Option.
Cached(wt, q) ==
    IF key_of(q) \in DOMAIN wt[cache_of(q)] THEN Some(wt[cache_of(q)][key_of(q)]) ELSE None

\* The dependency graph of a WidgetTree has an edge consumer -> dependency.
HasEdge(wt, consumer, dependency) ==
    /\ consumer \in DOMAIN wt.dependency_node_map
    /\ dependency \in DOMAIN wt.dependency_node_map
    /\ \E i \in 1..Len(wt.dependency_tree.edges) :
           wt.dependency_tree.edges[i] =
               <<wt.dependency_node_map[consumer], wt.dependency_node_map[dependency]>>

\* A query evaluated from scratch: on the current tree, window size and
\* signal values, with empty caches and an empty dependency graph.
FromScratch(q) ==
    evaluate([WidgetTree_new EXCEPT !.size = widget_tree.size,
                                    !.tree = widget_tree.tree,
                                    !.root = widget_tree.root,
                                    !.signals = widget_tree.signals]
             @@ [scene |-> <<>>] @@ Observed_new, q)

\* The signal has been set at least once.
SignalWasSet == widget_tree.signals[0].width > InitialExtent

\* The queries with an edge to `q` in the dependency graph of `wt`.
Consumers(wt, q) ==
    {p \in DOMAIN wt.dependency_node_map : HasEdge(wt, p, q)}

\* The queries from which `q` is reached along edges of the dependency
\* graph of `wt`, `q` itself left out unless it lies on a cycle.
RECURSIVE ReachableBackward(_, _)
ReachableBackward(wt, found) ==
    LET more == found \cup UNION {Consumers(wt, p) : p \in found}
    IN IF more = found THEN found ELSE ReachableBackward(wt, more)

ConsumersReachableFrom(wt, q) == ReachableBackward(wt, Consumers(wt, q))

\* The edges of the dependency graph of `wt`, each pair once.
EdgeSet(wt) ==
    {wt.dependency_tree.edges[i] : i \in 1..Len(wt.dependency_tree.edges)}

\* The edges left when every edge that starts at a vertex no edge leads to
\* is taken away, again and again: the edges from which a cycle is reached
\* backward.
RECURSIVE OnCycles(_)
OnCycles(edges) ==
    LET kept == {e \in edges : \E f \in edges : f[2] = e[1]}
    IN IF kept = edges THEN edges ELSE OnCycles(kept)

\* The dependency graph of `wt` has a path of one edge or more from a
\* vertex back to itself.
HasCycle(wt) == OnCycles(EdgeSet(wt)) # {}

\* How many times the last handler's invalidation visited `q`.
VisitsOf(seq, q) == Cardinality({i \in DOMAIN seq : seq[i].query = q})

\* The deepest evaluation stack among the evaluations `evals`: an
\* evaluation that missed had its own query on the stack it found.
DepthReached(evals) ==
    LET deepest[i \in 0..Len(evals)] ==
            IF i = 0 THEN 0
            ELSE Max(deepest[i - 1],
                     Len(evals[i].before.query_stack)
                         + (IF evals[i].after.executed = evals[i].before.executed
                            THEN 0 ELSE 1))
    IN deepest[Len(evals)]

\* The tree is a root Row whose children are all leaves.
FlatRow ==
    /\ widget_tree.root # None
    /\ node_weight(widget_tree.tree, widget_tree.root[1]).layouter.kind = "Row"
    /\ Children(widget_tree.root[1]) # <<>>
    /\ \A n \in Nodes \ {widget_tree.root[1]} :
           /\ Children(n) = <<>>
           /\ Parents(n) = <<widget_tree.root[1]>>

\* A root Row with one fixed box, and the evaluations of its first redraw
\* in a window of the given size.
OneChildRow == build(<<RowLayouter, FixedBox(60, 40)>>, <<<<0, 1>>>>)

FirstRedrawOf(tree, size) ==
    window_event_RedrawRequested(
        resumed(tree @@ [scene |-> <<>>] @@ Observed_new, size)).evaluations

\* The evaluation `e` found, when it began, an entry for its query whose
\* valid_through is at least the revision.
WasHit(e) ==
    /\ Cached(e.before, e.query) # None
    /\ Cached(e.before, e.query)[1].revision.valid_through >= e.before.revision

\* The stamps of all cache entries of a WidgetTree.
Stamps(wt) ==
    UNION {{wt[c][k].revision : k \in DOMAIN wt[c]} :
              c \in {"node_position_query_cache", "node_size_query_cache",
                     "node_constraints_query_cache", "nth_child_query_cache"}}

\* ------------------------------------------------------------------------
\* C1  Cache correctness.  Whatever presses (revision incremented, signal
\* overwritten, invalidate run from the signal), redraws, resizes and
\* resets came before, every value an evaluation of a NodePosition,
\* NodeSize, NodeConstraints or NthChild query returned during the last
\* handler is the value the same query has when evaluated from scratch,
\* with empty caches, on the current tree, window size and signal values.
\* ------------------------------------------------------------------------
CacheCorrectness ==
    panic = "none" =>
        \A q \in DOMAIN returned :
            LET same(scratch) == ~Failed(scratch.t) /\ returned[q] = {scratch.v}
            IN same(FromScratch(q))

\* A redraw after a press returned, for the box bound to the signal, the
\* size the press gave the signal, with a cache that the frames before the
\* press had filled.
CacheCorrectnessWitness ==
    /\ event = "RedrawRequested"
    /\ panic = "none"
    /\ SignalWasSet
    /\ widget_tree.revision >= 3
    /\ \E q \in DOMAIN returned :
           /\ q.kind = "NodeSize"
           /\ node_weight(widget_tree.tree, q.index).layouter.kind = "DynamicallySizedBox"
           /\ returned[q] = {widget_tree.signals[0]}

\* ------------------------------------------------------------------------
\* C2  Dependency soundness.  Every read made during the last handler by an
\* executing definition, of a signal or of another query, served from the
\* cache or recomputed, has its edge reader -> read in the dependency
\* graph once the handler is over.
\* ------------------------------------------------------------------------
DependencySoundness ==
    panic = "none" => \A r \in reads : HasEdge(widget_tree, r[1], r[2])

\* ------------------------------------------------------------------------
\* C3  Cycle rejection.  No query identity is ever on the evaluation stack
\* twice, and the process never dies of the stack of nested evaluations:
\* an evaluation of an identity already on the stack is refused without
\* its definition being entered again.
\* ------------------------------------------------------------------------
CycleRejection ==
    /\ \A i, j \in 1..Len(widget_tree.query_stack) :
           i # j => widget_tree.query_stack[i] # widget_tree.query_stack[j]
    /\ panic # "stack overflow"

\* ------------------------------------------------------------------------
\* C4  Early cutoff.  In the invalidation pass of a press, the definition
\* of a query whose cached output is the same after the pass as before it
\* is executed at most once.
\* ------------------------------------------------------------------------
EarlyCutoff ==
    [][event' = "MouseInput" =>
           \A q \in DOMAIN executed' :
               (/\ Cached(widget_tree, q) # None
                /\ Cached(widget_tree', q) # None
                /\ Cached(widget_tree', q)[1].value = Cached(widget_tree, q)[1].value)
               => executed'[q] <= 1]_vars

\* A press has re-executed, once, a query that reads a query that reads the
\* signal, found its output equal to the cached one and kept the entry's
\* last_changed while moving its valid_through to the new revision.
EarlyCutoffWitness ==
    /\ event = "MouseInput"
    /\ panic = "none"
    /\ \E q \in DOMAIN executed :
           /\ executed[q] = 1
           /\ Cached(widget_tree, q) # None
           /\ Cached(widget_tree, q)[1].revision.last_changed < widget_tree.revision
           /\ Cached(widget_tree, q)[1].revision.valid_through = widget_tree.revision
           /\ \E d \in DOMAIN executed :
                  /\ HasEdge(widget_tree, q, d)
                  /\ HasEdge(widget_tree, d, Signal(0))
                  /\ Cached(widget_tree, d)[1].revision.last_changed = widget_tree.revision

\* The Row of `index` holds a DynamicallySizedBox next to the fixed box f.
DynamicSiblingOf(f) ==
    \E row, d \in Nodes :
        /\ node_weight(widget_tree.tree, row).layouter.kind = "Row"
        /\ node_weight(widget_tree.tree, d).layouter.kind = "DynamicallySizedBox"
        /\ node_weight(widget_tree.tree, f).layouter.kind = "SizedBox"
        /\ position(Children(row), d) >= 0
        /\ position(Children(row), f) >= 0

\* ------------------------------------------------------------------------
\* C5  In a Row that holds a DynamicallySizedBox and a fixed box, in either
\* order, once the fixed box's size is cached, a press (the signal set and
\* its invalidation pass) executes the definition of the fixed box's
\* NodeSize, and so its size_for_self, zero times and leaves the fixed
\* box's NodeSize cache entry as it was.
\* ------------------------------------------------------------------------
SiblingUntouched ==
    [][(event' = "MouseInput" /\ panic' = "none") =>
           \A f \in Nodes :
               (DynamicSiblingOf(f) /\ Cached(widget_tree, NodeSize(f)) # None)
               => /\ count(executed', NodeSize(f)) = 0
                  /\ Cached(widget_tree', NodeSize(f)) = Cached(widget_tree, NodeSize(f))]_vars

\* ------------------------------------------------------------------------
\* C6  A redraw that comes right after a redraw, with no press and no
\* resize between the two, executes no query definition: the draw walk is
\* answered from the cache.
\* ------------------------------------------------------------------------
SecondRedrawFromCache ==
    [][(event = "RedrawRequested" /\ event' = "RedrawRequested" /\ panic' = "none")
           => executed' = HashMap_new]_vars

\* ------------------------------------------------------------------------
\* C7  Determinism.  All the evaluations of a query during one handler
\* return one value, and a redraw that follows a redraw or a press, so
\* with the tree, the window size and the signal as the evaluations of the
\* handler before left them, returns for every query both handlers
\* evaluated the value the handler before returned, be it from the cache
\* or recomputed after the revision increment.
\* ------------------------------------------------------------------------
Determinism ==
    /\ [](\A q \in DOMAIN returned : Cardinality(returned[q]) = 1)
    /\ [][(event \in {"RedrawRequested", "MouseInput"} /\ event' = "RedrawRequested")
              => \A q \in DOMAIN returned \cap DOMAIN returned' :
                     returned'[q] = returned[q]]_vars

\* Two redraws in a row after a press: the second recomputed, at a new
\* revision, a fixed box's size that the same handler then also served
\* from the cache.
DeterminismWitness ==
    /\ event = "RedrawRequested"
    /\ panic = "none"
    /\ SignalWasSet
    /\ widget_tree.revision >= 4
    /\ \E q \in DOMAIN executed :
           /\ q.kind = "NodeSize"
           /\ node_weight(widget_tree.tree, q.index).layouter.kind = "SizedBox"
           /\ executed[q] = 1
           /\ \E r1, r2 \in reads : r1[2] = q /\ r2[2] = q /\ r1[1] # r2[1]

\* The sum of the cached parent-relative positions of a node and of all
\* its ancestors.
RECURSIVE AbsolutePosition(_)
AbsolutePosition(index) ==
    LET own == widget_tree.node_position_query_cache[index].value
    IN IF Parents(index) = <<>> THEN own
       ELSE LET up == AbsolutePosition(Parents(index)[1])
            IN Point(up.x + own.x, up.y + own.y)

\* ------------------------------------------------------------------------
\* C8  After a redraw, for every node with a drawer, at every depth, the
\* rectangle handed to the drawer has as its origin the sum of the
\* NodePosition values of the node and of all its ancestors, and as its
\* size the node's NodeSize.
\* ------------------------------------------------------------------------
DrawnWhereLaidOut ==
    (event = "RedrawRequested" /\ panic = "none") =>
        \A i \in 1..Len(scene) :
            scene[i].rect =
                Rect_from_origin_size(AbsolutePosition(scene[i].index),
                                      widget_tree.node_size_query_cache[scene[i].index].value)

\* NthChild(parent, n) with n at or past the number of children of parent.
OutOfRange(q) == q.kind = "NthChild" /\ q.child_n >= Len(Children(q.parent_index))

\* ------------------------------------------------------------------------
\* C9  An NthChild(parent, n) with n at or past the number of children of
\* parent, once its definition has run, has ended the handler in a panic,
\* has returned no node id and has no entry in the NthChild cache; no
\* such key is ever returned or cached at all.
\* ------------------------------------------------------------------------
NthChildOutOfRange ==
    \A q \in DOMAIN executed \cup DOMAIN returned
                 \cup DOMAIN widget_tree.nth_child_query_cache :
        OutOfRange(q) =>
            /\ panic = "NthChild: unwrap on None"
            /\ q \notin DOMAIN returned
            /\ q \notin DOMAIN widget_tree.nth_child_query_cache

\* The definition of an out-of-range NthChild has run: a Padded node
\* without a child asked for its child 0.
NthChildOutOfRangeWitness ==
    \E q \in DOMAIN executed :
        /\ OutOfRange(q)
        /\ node_weight(widget_tree.tree, q.parent_index).layouter.kind = "Padded"
        /\ widget_tree.query_stack[Len(widget_tree.query_stack)] = q

\* The parents of a node and the nodes below it in the node store.
ParentSet(index) ==
    {widget_tree.tree.edges[i][1] :
         i \in {j \in 1..Len(widget_tree.tree.edges) : widget_tree.tree.edges[j][2] = index}}

ChildSet(index) ==
    {widget_tree.tree.edges[i][2] :
         i \in {j \in 1..Len(widget_tree.tree.edges) : widget_tree.tree.edges[j][1] = index}}

Descendants(index) ==
    LET below[k \in 0..node_count(widget_tree.tree)] ==
            IF k = 0 THEN ChildSet(index)
            ELSE below[k - 1] \cup UNION {ChildSet(m) : m \in below[k - 1]}
    IN below[node_count(widget_tree.tree)]

\* ------------------------------------------------------------------------
\* C10  After any sequence of add_node and add_child calls the node store
\* is a tree: every node has at most one parent and no node is below
\* itself.
\* ------------------------------------------------------------------------
NodeStoreIsTree ==
    \A index \in Nodes :
        /\ Cardinality(ParentSet(index)) <= 1
        /\ index \notin Descendants(index)

\* ------------------------------------------------------------------------
\* C11  In every redraw, whatever resizes, presses and redraws came before,
\* NodeConstraints of the root is evaluated and every evaluation returns a
\* zero minimum and, as maximum, the size the last resume or resize event
\* stored in the tree.
\* ------------------------------------------------------------------------
RootConstraintsAreTheWindow ==
    event = "RedrawRequested" =>
        /\ NodeConstraints(widget_tree.root[1]) \in DOMAIN returned
        /\ returned[NodeConstraints(widget_tree.root[1])]
               = {Constraints(SizeZERO, widget_tree.size)}

\* A redraw of the small window, after a press and at least one more
\* revision, returned the small window as the root's maximum although a
\* child's box no longer fits in it.
RootConstraintsAreTheWindowWitness ==
    /\ event = "RedrawRequested"
    /\ panic = "none"
    /\ SignalWasSet
    /\ widget_tree.revision >= 2
    /\ widget_tree.size.width < widget_tree.signals[0].width
    /\ returned[NodeConstraints(widget_tree.root[1])]
           = {Constraints(SizeZERO, widget_tree.size)}

\* The children of a node in the order add_child attached them.
AttachedChildren(index) ==
    LET edges == widget_tree.tree.edges
        upto[i \in 0..Len(edges)] ==
            IF i = 0 THEN <<>>
            ELSE IF edges[i][1] = index THEN Append(upto[i - 1], edges[i][2])
            ELSE upto[i - 1]
    IN upto[Len(edges)]

\* The widths of the fixed boxes s[1] .. s[k], added up.
WidthOfBoxes(s, k) ==
    LET sum[i \in 0..k] ==
            IF i = 0 THEN 0
            ELSE sum[i - 1] + node_weight(widget_tree.tree, s[i]).layouter.size.width
    IN sum[k]

\* The cached widths of the nodes s[1] .. s[k], added up.
SumOfWidths(s, k) ==
    LET sum[i \in 0..k] ==
            IF i = 0 THEN 0
            ELSE sum[i - 1] + widget_tree.node_size_query_cache[s[i]].value.width
    IN sum[k]

\* The greatest of the cached heights of the nodes of s.
TallestOf(s) ==
    LET tallest[i \in 0..Len(s)] ==
            IF i = 0 THEN 0
            ELSE Max(tallest[i - 1], widget_tree.node_size_query_cache[s[i]].value.height)
    IN tallest[Len(s)]

\* A Row with children, all of them fixed boxes.
RowOfBoxes(row) ==
    /\ node_weight(widget_tree.tree, row).layouter.kind = "Row"
    /\ Children(row) # <<>>
    /\ \A i \in 1..Len(Children(row)) :
           node_weight(widget_tree.tree, Children(row)[i]).layouter.kind = "SizedBox"

\* ------------------------------------------------------------------------
\* C12  After a redraw, in a Row whose children are fixed boxes, the child
\* attached first is at (0, 0) and every other child is at (the widths of
\* the children attached before it added up, 0): for A, B, C of widths
\* 100, 150, 200 attached in that order, (0, 0), (100, 0), (250, 0).
\* ------------------------------------------------------------------------
RowInAttachmentOrder ==
    (event = "RedrawRequested" /\ panic = "none") =>
        \A row \in Nodes :
            RowOfBoxes(row) =>
                \A k \in 1..Len(AttachedChildren(row)) :
                    widget_tree.node_position_query_cache[AttachedChildren(row)[k]].value
                        = Point(WidthOfBoxes(AttachedChildren(row), k - 1), 0)

\* ------------------------------------------------------------------------
\* C13  A Padded with margins left, right, top, bottom gives its child the
\* offset (left, top), whatever the margins, top different from bottom
\* included, in each of the files that define a Padded.
\* ------------------------------------------------------------------------
PaddedChildAtLeftTop ==
    padded # None =>
        \A file \in DOMAIN padded.position :
            padded.position[file] # None =>
                padded.position[file][1] = Point(padded.left, padded.top)

\* ------------------------------------------------------------------------
\* C14  No operation of the engine (press, redraw, reset, and the resume
\* and resize around them) lowers the revision counter, and a press raises
\* it by exactly one and does so before its invalidation pass recomputes
\* anything: every entry the pass stored carries the raised revision.
\* ------------------------------------------------------------------------
RevisionNeverDecreases ==
    [][/\ widget_tree'.revision >= widget_tree.revision
       /\ event' = "MouseInput" =>
              /\ widget_tree'.revision = widget_tree.revision + 1
              /\ \A q \in DOMAIN executed' :
                     Cached(widget_tree', q) # None =>
                         Cached(widget_tree', q)[1].revision.valid_through
                             = widget_tree'.revision]_vars

\* ------------------------------------------------------------------------
\* C15  A signal read made while no query is executing (the evaluation
\* stack is empty) returns the signal's current value and leaves the whole
\* WidgetTree as it was: dependency graph, dependency node map, the four
\* caches and the revision.
\* ------------------------------------------------------------------------
SignalReadOutsideQueries ==
    [][event' = "get_signal" =>
           /\ widget_tree.query_stack = <<>>
           /\ \E signal \in DOMAIN widget_tree.signals :
                  returned' = insert(HashMap_new, Signal(signal),
                                     {widget_tree.signals[signal]})
           /\ widget_tree' = widget_tree]_vars

\* The signal was read from outside after a press had changed it, with a
\* dependency graph that holds the signal and its readers, and the read
\* returned the changed value.
SignalReadOutsideQueriesWitness ==
    /\ event = "get_signal"
    /\ panic = "none"
    /\ SignalWasSet
    /\ \E q \in DOMAIN widget_tree.dependency_node_map :
           HasEdge(widget_tree, q, Signal(0))
    /\ returned = insert(HashMap_new, Signal(0), {widget_tree.signals[0]})

\* ------------------------------------------------------------------------
\* C16  Queries are total: on every tree of the shipped layouters, nodes
\* without children included, a redraw (which evaluates NodePosition and
\* NodeSize of every node, and through them NodeConstraints) ends without a
\* failure, and has returned a size and a position for every node.
\* ------------------------------------------------------------------------
QueriesAreTotal ==
    event = "RedrawRequested" =>
        /\ panic = "none"
        /\ \A n \in Nodes :
               /\ NodeSize(n) \in DOMAIN returned
               /\ NodePosition(n) \in DOMAIN returned

\* ------------------------------------------------------------------------
\* C17  An evaluation that finds an entry for its query with valid_through
\* at least the current revision returns the entry's value and leaves as
\* they were: the executions of every definition, the dependency graph and
\* its node map, the evaluation stack and every cache entry.
\* ------------------------------------------------------------------------
CacheHitFrame ==
    \A i \in DOMAIN evaluations :
        WasHit(evaluations[i]) =>
            /\ evaluations[i].value
                   = Cached(evaluations[i].before, evaluations[i].query)[1].value
            /\ evaluations[i].after = evaluations[i].before

\* During an invalidation pass a query was answered from the cache for a
\* caller that was executing, and the graph holds no edge from that caller
\* to it.
CacheHitFrameWitness ==
    /\ event = "MouseInput"
    /\ panic = "none"
    /\ \E i \in DOMAIN evaluations :
           /\ WasHit(evaluations[i])
           /\ evaluations[i].before.query_stack # <<>>
           /\ ~HasEdge(widget_tree,
                       evaluations[i].before.query_stack[
                           Len(evaluations[i].before.query_stack)],
                       evaluations[i].query)

\* ------------------------------------------------------------------------
\* C18  An evaluation that misses executes the definition once with the
\* query on top of the stack it found, and when it returns the stack is
\* the one it found and the cache holds for the query the returned value
\* with last_changed = valid_through = the current revision.
\* ------------------------------------------------------------------------
CacheMissStores ==
    /\ \A i \in DOMAIN evaluations :
           ~WasHit(evaluations[i]) =>
               /\ evaluations[i].after.query_stack = evaluations[i].before.query_stack
               /\ evaluations[i].after.revision = evaluations[i].before.revision
               /\ count(evaluations[i].after.executed, evaluations[i].query)
                      = count(evaluations[i].before.executed, evaluations[i].query) + 1
               /\ Cached(evaluations[i].after, evaluations[i].query)
                      = Some(CachedQueryOutput(evaluations[i].value,
                                 Revision(evaluations[i].after.revision,
                                          evaluations[i].after.revision)))
    /\ panic = "none" =>
           \A j \in DOMAIN evaluations :
               evaluations[j].before.query_stack # <<>> =>
                   \E i \in (j + 1)..Len(evaluations) :
                       /\ ~WasHit(evaluations[i])
                       /\ Append(evaluations[i].before.query_stack, evaluations[i].query)
                              = evaluations[j].before.query_stack

\* A press made a query miss while another was executing: it was stored
\* at the new revision, over an entry of the revision before.
CacheMissStoresWitness ==
    /\ event = "MouseInput"
    /\ panic = "none"
    /\ \E i \in DOMAIN evaluations :
           /\ ~WasHit(evaluations[i])
           /\ evaluations[i].before.query_stack # <<>>
           /\ Cached(evaluations[i].before, evaluations[i].query) # None
           /\ evaluations[i].after.revision >= 2

\* ------------------------------------------------------------------------
\* C19  In the invalidation pass of a press, every consumer from which the
\* signal is reached in the dependency graph the pass starts on is visited
\* (its cached output taken, the query evaluated, the two compared) exactly
\* once, whatever redraws and presses came before.
\* ------------------------------------------------------------------------
EachConsumerVisitedOnce ==
    [][(event' = "MouseInput" /\ panic' = "none") =>
           \A q \in ConsumersReachableFrom(widget_tree, Signal(0)) :
               VisitsOf(visits', q) = 1]_vars

\* ------------------------------------------------------------------------
\* C20  In the invalidation pass of a press, a visited consumer whose
\* output after the set differs from the output cached for it before the
\* set has, after the pass, the new output cached with both stamps at the
\* current revision, and every query the dependency graph records as its
\* dependent was visited in the pass.
\* ------------------------------------------------------------------------
ChangedConsumerPropagates ==
    [][(event' = "MouseInput" /\ panic' = "none") =>
           \A i \in DOMAIN visits' :
               (/\ Cached(widget_tree, visits'[i].query) # None
                /\ visits'[i].new # Cached(widget_tree, visits'[i].query)[1].value) =>
                   /\ Cached(widget_tree', visits'[i].query)
                          = Some(CachedQueryOutput(visits'[i].new,
                                     current_revision(widget_tree')))
                   /\ \A p \in Consumers(widget_tree, visits'[i].query) :
                          VisitsOf(visits', p) >= 1]_vars

\* ------------------------------------------------------------------------
\* C21  In the invalidation pass of a press, a consumer whose evaluated
\* output equals the output taken from the cache at its visit is cached,
\* after the pass, with that value, the last_changed it had and
\* valid_through at the current revision; and a consumer that compared equal
\* at every one of its visits is never the vertex whose consumers the pass
\* walks.
\* ------------------------------------------------------------------------
UnchangedConsumerCutsOff ==
    (event = "MouseInput" /\ panic = "none") =>
        \A i \in DOMAIN visits :
            visits[i].new = visits[i].old.value =>
                /\ Cached(widget_tree, visits[i].query)
                       = Some(CachedQueryOutput(visits[i].old.value,
                                  Revision(visits[i].old.revision.last_changed,
                                           widget_tree.revision)))
                /\ (\A j \in DOMAIN visits :
                        visits[j].query = visits[i].query
                            => visits[j].new = visits[j].old.value)
                       => \A j \in DOMAIN visits : visits[j].through # visits[i].query

\* A press left a consumer with an equal output that had been computed at
\* an earlier revision, while the graph records dependents of it.
UnchangedConsumerCutsOffWitness ==
    /\ event = "MouseInput"
    /\ panic = "none"
    /\ \E i \in DOMAIN visits :
           /\ visits[i].new = visits[i].old.value
           /\ visits[i].old.revision.last_changed < widget_tree.revision
           /\ Consumers(widget_tree, visits[i].query) # {}

\* ------------------------------------------------------------------------
\* C22  Signals are leaves of the dependency graph: in every reachable
\* state no edge starts at a Signal vertex, and no handler has died in the
\* "A signal should never depend on another thing" branch of invalidate.
\* ------------------------------------------------------------------------
SignalsAreLeaves ==
    /\ \A i \in 1..Len(widget_tree.dependency_tree.edges) :
           node_weight(widget_tree.dependency_tree,
                       widget_tree.dependency_tree.edges[i][1]).kind # "Signal"
    /\ panic # "A signal should never depend on another thing"

\* After a press the signal is a vertex, two queries at least read it, and
\* the pass has walked from it.
SignalsAreLeavesWitness ==
    /\ event = "MouseInput"
    /\ panic = "none"
    /\ Cardinality(Consumers(widget_tree, Signal(0))) >= 2
    /\ \E i \in DOMAIN visits : visits[i].through = Signal(0)

\* ------------------------------------------------------------------------
\* C23  On every tree of the shipped layouters the dependency graph is
\* acyclic in every reachable state: after redraws, presses with their
\* invalidation passes, resizes and resets.
\* ------------------------------------------------------------------------
DependencyGraphAcyclic == ~HasCycle(widget_tree)

\* After a redraw, a press and a second redraw of main's tree the graph
\* holds paths of three edges or more and edges added at three revisions.
DependencyGraphAcyclicWitness ==
    /\ event = "RedrawRequested"
    /\ panic = "none"
    /\ SignalWasSet
    /\ widget_tree.revision >= 3
    /\ NodeSize(0) \in ConsumersReachableFrom(widget_tree, Signal(0))
    /\ NodeSize(0) \notin Consumers(widget_tree, Signal(0))
    /\ Len(widget_tree.dependency_tree.edges) > node_count(widget_tree.dependency_tree)

\* ------------------------------------------------------------------------
\* C24  After a redraw, in every Row, with the children numbered as
\* NodePosition and NodeConstraints number them (their place among the
\* parent's outgoing neighbours): NthChild(row, n) is child n wherever it
\* was asked; child 0 is at the origin and has the Row's constraints; child
\* k > 0 is at (x of child k-1 + width of child k-1, y of child k-1) and has
\* the width left of it as its maximum width.
\* ------------------------------------------------------------------------
RowSiblingsInSequence ==
    (event = "RedrawRequested" /\ panic = "none") =>
        \A row \in Nodes :
            node_weight(widget_tree.tree, row).layouter.kind = "Row" =>
                /\ \A n \in 0..(Len(Children(row)) - 1) :
                       NthChild(row, n) \in DOMAIN returned =>
                           returned[NthChild(row, n)] = {Children(row)[n + 1]}
                /\ \A k \in 1..Len(Children(row)) :
                       IF k = 1
                       THEN /\ returned[NodePosition(Children(row)[k])] = {PointORIGIN}
                            /\ returned[NodeConstraints(Children(row)[k])]
                                   = returned[NodeConstraints(row)]
                       ELSE /\ NthChild(row, k - 2) \in DOMAIN returned
                            /\ \A prev_position \in returned[NodePosition(Children(row)[k - 1])],
                                  prev_size \in returned[NodeSize(Children(row)[k - 1])],
                                  self_constraints \in returned[NodeConstraints(row)] :
                                   /\ returned[NodePosition(Children(row)[k])]
                                          = {Point(prev_position.x + prev_size.width,
                                                   prev_position.y)}
                                   /\ returned[NodeConstraints(Children(row)[k])]
                                          = {Constraints(self_constraints.min,
                                                Size(self_constraints.max.width
                                                         - prev_position.x - prev_size.width,
                                                     self_constraints.max.height))}

\* A Row of three children of different widths was drawn: its third child
\* lies behind the two others.
RowSiblingsInSequenceWitness ==
    /\ event = "RedrawRequested"
    /\ panic = "none"
    /\ \E row \in Nodes :
           /\ node_weight(widget_tree.tree, row).layouter.kind = "Row"
           /\ Len(Children(row)) = 3
           /\ returned[NodePosition(Children(row)[3])]
                  = {Point(widget_tree.node_size_query_cache[Children(row)[1]].value.width
                             + widget_tree.node_size_query_cache[Children(row)[2]].value.width,
                           0)}
           /\ widget_tree.node_size_query_cache[Children(row)[1]].value.width
                  # widget_tree.node_size_query_cache[Children(row)[2]].value.width

\* ------------------------------------------------------------------------
\* C25  After a redraw, NodeSize of a Row with one child or more is as wide
\* as its children's widths added up and as high as the maximum height of
\* the Row's own constraints, whatever the heights of its children.
\* ------------------------------------------------------------------------
RowSize ==
    (event = "RedrawRequested" /\ panic = "none") =>
        \A row \in Nodes :
            (/\ node_weight(widget_tree.tree, row).layouter.kind = "Row"
             /\ Children(row) # <<>>) =>
                \A constraints \in returned[NodeConstraints(row)] :
                    returned[NodeSize(row)]
                        = {Size(SumOfWidths(Children(row), Len(Children(row))),
                                constraints.max.height)}

\* A Row of two children or more was drawn, its children of different
\* widths and none as tall as the Row.
RowSizeWitness ==
    /\ event = "RedrawRequested"
    /\ panic = "none"
    /\ \E row \in Nodes :
           /\ node_weight(widget_tree.tree, row).layouter.kind = "Row"
           /\ Len(Children(row)) >= 2
           /\ widget_tree.node_size_query_cache[Children(row)[1]].value.width
                  # widget_tree.node_size_query_cache[Children(row)[2]].value.width
           /\ widget_tree.node_size_query_cache[row].value.height
                  # TallestOf(Children(row))
           /\ widget_tree.node_size_query_cache[row].value.width
                  = SumOfWidths(Children(row), Len(Children(row)))

\* ------------------------------------------------------------------------
\* C26  The constraints a Padded gives its child are the constraints it
\* was handed with the maximum reduced by left + right in width and by
\* top + bottom in height and the minimum increased by the same, in each of
\* the files that define a Padded.
\* ------------------------------------------------------------------------
PaddedChildConstraints ==
    padded # None =>
        /\ padded.constraints.main_rs # None =>
               padded.constraints.main_rs[1]
                   = Constraints(
                         Size(padded.incoming.min_width + padded.left + padded.right,
                              padded.incoming.min_height + padded.top + padded.bottom),
                         Size(padded.incoming.max_width - padded.left - padded.right,
                              padded.incoming.max_height - padded.top - padded.bottom))
        /\ \A file \in {"tree_rs", "layout_rs"} :
               padded.constraints[file] # None =>
                   /\ ~padded.constraints[file][1].panicked
                   /\ padded.incoming.max_width - padded.left - padded.right >= 0
                   /\ padded.incoming.max_height - padded.top - padded.bottom >= 0
                   /\ padded.constraints[file][1].value
                          = LayoutConstraint(
                                u32(padded.incoming.min_width + padded.left + padded.right),
                                u32(padded.incoming.min_height + padded.top + padded.bottom),
                                u32(padded.incoming.max_width - padded.left - padded.right),
                                u32(padded.incoming.max_height - padded.top - padded.bottom))

\* ------------------------------------------------------------------------
\* C27  The depth the evaluation stack reaches depends on the depth of the
\* tree, not on the number of nodes: a redraw of a root Row with n leaf
\* children reaches no deeper a stack than the first redraw of a root Row
\* with one leaf child.
\* ------------------------------------------------------------------------
StackDepthByTreeDepth ==
    (event = "RedrawRequested" /\ panic = "none" /\ FlatRow) =>
        DepthReached(evaluations)
            <= DepthReached(FirstRedrawOf(OneChildRow, widget_tree.size))

\* ------------------------------------------------------------------------
\* C28  Every invalidation pass a press starts comes to its end: every call
\* of invalidate in progress returns, or the process dies.
\* ------------------------------------------------------------------------
PassTerminates == (pass # <<>>) ~> (pass = <<>> \/ panic # "none")

\* A pass on a graph grown by redraws and an earlier press is three calls
\* of invalidate deep.
PassTerminatesWitness ==
    /\ event = "MouseInput"
    /\ panic = "none"
    /\ widget_tree.revision >= 4
    /\ Len(pass) >= 3
    /\ Len(visits) >= 3

\* ------------------------------------------------------------------------
\* C29  A press completes without failure in every state it can happen in,
\* a press before the first redraw and a press after reset() included.
\* ------------------------------------------------------------------------
SignalSetCompletes == event = "MouseInput" => panic = "none"

\* ------------------------------------------------------------------------
\* C30  The dependency graph holds each query or signal as one vertex at
\* most and each (consumer, dependency) pair as one edge at most.
\* ------------------------------------------------------------------------
GraphHoldsEachOnce ==
    LET g == widget_tree.dependency_tree
    IN /\ \A i, j \in 1..Len(g.nodes) : g.nodes[i] = g.nodes[j] => i = j
       /\ \A i, j \in 1..Len(g.edges) : g.edges[i] = g.edges[j] => i = j

\* ------------------------------------------------------------------------
\* C31  Between two increments of the revision no query is executed twice,
\* whatever draw walks and invalidation passes follow the increment.
\* `executed` counts the executions since the last increment.
\* ------------------------------------------------------------------------
ExecutedOncePerRevision == \A q \in DOMAIN executed : executed[q] <= 1

\* A draw walk after an invalidation pass in the same revision: a query the
\* pass visited and executed is asked for again and is not executed again.
ExecutedOncePerRevisionWitness ==
    /\ event = "draw"
    /\ panic = "none"
    /\ \E q \in DOMAIN executed :
           /\ executed[q] = 1
           /\ VisitsOf(visits, q) >= 2
           /\ \E i \in DOMAIN evaluations :
                  /\ evaluations[i].query = q
                  /\ evaluations[i].before.query_stack = <<>>
                  /\ evaluations[i].before.executed = executed

\* ------------------------------------------------------------------------
\* C32  Whenever no query is executing, every query that is a vertex of
\* the dependency graph, consumer or dependency, has an entry in the cache
\* of its kind, and no pass has failed to find the entry of a consumer.
\* ------------------------------------------------------------------------
GraphVerticesAreCached ==
    /\ panic # "invalidate: cache unwrap on None"
    /\ panic = "none" =>
           \A i \in 1..Len(widget_tree.dependency_tree.nodes) :
               LET q == widget_tree.dependency_tree.nodes[i]
               IN q.kind # "Signal" => Cached(widget_tree, q) # None

\* A press whose pass took the cached outputs of three consumers, of two
\* kinds at least.
GraphVerticesAreCachedWitness ==
    /\ event = "MouseInput"
    /\ panic = "none"
    /\ Cardinality({visits[i].query : i \in DOMAIN visits}) >= 3
    /\ Cardinality({visits[i].query.kind : i \in DOMAIN visits}) >= 2

\* ------------------------------------------------------------------------
\* C33  In every reachable state every cache entry has
\* last_changed <= valid_through <= the current revision.
\* ------------------------------------------------------------------------
StampsInOrder ==
    \A r \in Stamps(widget_tree) :
        r.last_changed <= r.valid_through /\ r.valid_through <= widget_tree.revision

\* After a press: an entry the pass stored again unchanged, and an entry of
\* an earlier revision the pass did not reach.
StampsInOrderWitness ==
    /\ panic = "none"
    /\ \E r \in Stamps(widget_tree) :
           r.last_changed < r.valid_through /\ r.valid_through = widget_tree.revision
    /\ \E r \in Stamps(widget_tree) : r.valid_through < widget_tree.revision

\* ------------------------------------------------------------------------
\* C34  Every value NodeConstraints produced has min <= max on both axes.
\* ------------------------------------------------------------------------
ConstraintsMinBelowMax ==
    \A k \in DOMAIN widget_tree.node_constraints_query_cache :
        LET c == widget_tree.node_constraints_query_cache[k].value
        IN c.min.width <= c.max.width /\ c.min.height <= c.max.height

\* ------------------------------------------------------------------------
\* C35  The evaluation stack is empty whenever no evaluation is in
\* progress: every evaluation that began on an empty stack left an empty
\* stack, and so did every draw walk and invalidation pass that returned.
\* ------------------------------------------------------------------------
StackEmptyWhenIdle ==
    /\ panic = "none" => widget_tree.query_stack = <<>>
    /\ \A i \in DOMAIN evaluations :
           evaluations[i].before.query_stack = <<>>
               => evaluations[i].after.query_stack = <<>>

\* A pass that returned after evaluations four queries deep.
StackEmptyWhenIdleWitness ==
    /\ event = "MouseInput"
    /\ panic = "none"
    /\ visits # <<>>
    /\ DepthReached(evaluations) >= 4
    /\ widget_tree.query_stack = <<>>

\* ------------------------------------------------------------------------
\* C36  tree.rs: after one Tree::layout on a freshly built tree every node
\* that was placed is at its parent's final position plus the offset the
\* parent's position_child returned, and a second layout with the same size
\* leaves every rect as it was.
\* ------------------------------------------------------------------------
LayoutPlacesChildren ==
    tree_rs # None =>
        /\ (tree_rs.panic = "none" /\ Len(tree_rs.laid_out) = 1) =>
               \A parent \in TreeIds : \A i \in DOMAIN tree_rs.children[parent + 1] :
                   LET child == tree_rs.children[parent + 1][i]
                   IN child \in DOMAIN tree_rs.child_offset =>
                          tree_rs.rects[child + 1].pos =
                              Point(tree_rs.rects[parent + 1].pos.x
                                        + tree_rs.child_offset[child].x,
                                    tree_rs.rects[parent + 1].pos.y
                                        + tree_rs.child_offset[child].y)
        /\ (Len(tree_rs.laid_out) >= 2
                /\ tree_rs.laid_out[1].size = tree_rs.laid_out[2].size) =>
               tree_rs.laid_out[2].rects = tree_rs.laid_out[1].rects

\* ------------------------------------------------------------------------
\* C37  An evaluation that leaves a cache entry's value as it found it
\* leaves the entry's last_changed as it found it.
\* ------------------------------------------------------------------------
LastChangedOnlyWithValue ==
    \A i \in DOMAIN evaluations :
        LET e == evaluations[i]
        IN (/\ Cached(e.before, e.query) # None
            /\ Cached(e.after, e.query) # None
            /\ Cached(e.after, e.query)[1].value = Cached(e.before, e.query)[1].value)
               => Cached(e.after, e.query)[1].revision.last_changed
                      = Cached(e.before, e.query)[1].revision.last_changed

=========================================================================
